---- MODULE Spec2Model ----
(***************************************************************************)
(* The Captain of hugodecasta/captain (src/captain.py): the crew, chores   *)
(* and users stores, the HTTP handlers, the assignment pass and the        *)
(* reconciliation loop.                                                    *)
(*                                                                         *)
(* The handlers run on a thread pool and the loop on its own thread; the   *)
(* code takes no lock.  A thread is interleaved with the others at its     *)
(* outbound HTTP calls: the launch POST of the assignment pass and the     *)
(* cancel POSTs of the loop.  Between two such calls a thread's reads,     *)
(* computation and writes are one step.  A thread blocked in a POST keeps  *)
(* the snapshots it loaded (pass.crew, pass.chores, loop.crew, ...) and    *)
(* writes them back whole, as _write_json does.                            *)
(*                                                                         *)
(* Representation: a missing or None field is Null (strings), 0            *)
(* (timestamps, which the code tests with `or 0`), <<>> (exit_code,        *)
(* duration strings).  A duration string is a sequence of characters.      *)
(* The gpus list of a sailor is kept as its length; ip, port, ram and the  *)
(* script path do not influence any transition and are left out.           *)
(***************************************************************************)
EXTENDS Integers, Sequences, FiniteSets, TLC

VARIABLES
    now,            \* int(time.time()), seconds
    sub,            \* millisecond, inside the current clock reading, of the last submission
    crew,           \* crew.json : sailor name -> sailor record
    chores,         \* chores.json : chore_id -> chore record
    users,          \* users.json : uid -> user record
    pass,           \* the thread inside try_assign_pending, blocked in a launch POST
    loop,           \* the _cleanup_loop thread
    launched,       \* chore ids a sailor has received a launch request for
    cancel_posted,  \* chore id a cancel POST was issued for -> the sailor held its
                    \* process then and set its cancel_requested flag
    cr_since,       \* history: when each stored chore entered cancel_requested
    reissued,       \* history: the stored chore ids that were issued more than once
    last,           \* the last request: its endpoint, the branch it took, its subject
    ship,           \* a Sailor process: its tables, threads, subprocesses and reports
    desk,           \* the user_chore threads between their limit test and their write
    chest,          \* the relational variant: its tables, loops and processes
    calls           \* requests the Captain's API has received

vars == <<now, sub, crew, chores, users, pass, loop, launched, cancel_posted, cr_since,
         reissued, last, ship, desk, chest, calls>>

-----------------------------------------------------------------------------
(* Bounds of the model *)

StartTime == 6          \* the clock reading of the initial state
TickStep == 6           \* seconds between two clock readings
MaxTime == 18           \* the clock stops here
MaxSub == 1             \* milliseconds distinguished inside one clock reading
MaxChores == 1          \* chore records held by the chores store at once
MaxCalls == 4           \* requests the Captain's API receives in a run
SailorCpus == 2         \* cpus a sailor registers with
SailorGpus == 1         \* length of the gpus list a sailor registers with

(* Program constants *)

CAPTAIN_CLEANUP_TTL == 6            \* CAPTAIN_CLEANUP_TTL in the environment
CAPTAIN_CANCEL_REQUESTED_TTL == 6   \* CAPTAIN_CANCEL_REQUESTED_TTL in the environment
ALIVE_THRESHOLD == 10               \* now_ts() - last_seen > 10

Null == "null"

SailorNames == <<"alpha">>          \* crew.json is written with sort_keys
Sailors == {SailorNames[i] : i \in 1..Len(SailorNames)}
Owners == {1000}
Requests == {<<1, 1>>, <<-1, 0>>}   \* the (cpus, gpus) a submission asks for
ServiceRequests == {Null}
ServiceSets == {{"gpu"}}
ReportStatuses == {"Running", "Done", "Failed", "Canceled"}
Durations == {<<>>, <<"0", "0", ":", "0", "0", ":", "0", "5">>}
ChoresLimits == {0}
CancelReasons == {Null}

TERMINAL_STATUSES == {"done", "failed", "canceled", "cancelled"}
ACTIVE_STATUSES == {"pending", "assigned", "running", "cancel_requested"}

-----------------------------------------------------------------------------
(* Helpers *)

Max(a, b) == IF a >= b THEN a ELSE b

\* x or y or z ... on timestamps
Or2(a, b) == IF a # 0 THEN a ELSE b
Or3(a, b, c) == Or2(a, Or2(b, c))
Or4(a, b, c, d) == Or2(a, Or3(b, c, d))

RECURSIVE SortedSeq(_)
\* the keys of a store in the order json.dump(sort_keys=True) writes them
SortedSeq(S) ==
    IF S = {} THEN <<>>
    ELSE LET m == CHOOSE x \in S : \A y \in S : x <= y
         IN <<m>> \o SortedSeq(S \ {m})

Digits == {"0", "1", "2", "3", "4", "5", "6", "7", "8", "9"}

DigitVal(ch) ==
    CASE ch = "0" -> 0 [] ch = "1" -> 1 [] ch = "2" -> 2 [] ch = "3" -> 3
      [] ch = "4" -> 4 [] ch = "5" -> 5 [] ch = "6" -> 6 [] ch = "7" -> 7
      [] ch = "8" -> 8 [] ch = "9" -> 9

RECURSIVE NatVal(_)
NatVal(s) == IF s = <<>> THEN 0
             ELSE 10 * NatVal(SubSeq(s, 1, Len(s) - 1)) + DigitVal(s[Len(s)])

AllDigits(s) == s # <<>> /\ \A i \in 1..Len(s) : s[i] \in Digits

\* int(x) succeeds on an optionally signed, non-empty run of digits
IsInt(s) ==
    \/ AllDigits(s)
    \/ Len(s) > 1 /\ s[1] \in {"-", "+"} /\ AllDigits(Tail(s))

IntVal(s) ==
    IF s[1] = "-" THEN 0 - NatVal(Tail(s))
    ELSE IF s[1] = "+" THEN NatVal(Tail(s))
    ELSE NatVal(s)

\* position of the first ch in s, 0 if none
FirstIndex(s, ch) ==
    IF \E i \in 1..Len(s) : s[i] = ch
    THEN CHOOSE i \in 1..Len(s) : s[i] = ch /\ \A j \in 1..(i - 1) : s[j] # ch
    ELSE 0

RECURSIVE Split(_, _)
\* str.split(ch)
Split(s, ch) ==
    LET i == FirstIndex(s, ch)
    IN IF i = 0 THEN <<s>>
       ELSE <<SubSeq(s, 1, i - 1)>> \o Split(SubSeq(s, i + 1, Len(s)), ch)

_parse_max_time(s) ==
    IF s = <<>> THEN 0
    ELSE LET dash == FirstIndex(s, "-")
             d == SubSeq(s, 1, dash - 1)
             rest == IF dash = 0 THEN s ELSE SubSeq(s, dash + 1, Len(s))
             toks == Split(rest, ":")
             n == Len(toks)
             part(k) == IF k >= 1 THEN IntVal(toks[k]) ELSE 0   \* padded with 0
         IN IF dash # 0 /\ ~IsInt(d) THEN 0
            ELSE IF \E k \in 1..n : ~IsInt(toks[k]) THEN 0
            ELSE (IF dash = 0 THEN 0 ELSE IntVal(d)) * 86400
                 + part(n - 2) * 3600 + part(n - 1) * 60 + part(n)

-----------------------------------------------------------------------------
(* Records *)

Empty == <<>>       \* a store with no key

\* the chore user_chore persists; fields it does not set read as None
NewChore(cpus, gpus, owner, service) ==
    [cpus |-> cpus, gpus |-> gpus, sailor |-> Null, owner |-> owner,
     service |-> service, status |-> "pending", start |-> now,
     reason |-> "no available sailor", assigned_at |-> 0, run_start |-> 0,
     cancel_requested_at |-> 0, cancel_source |-> Null, end |-> 0,
     exit_code |-> <<>>]

\* int(chore["ressources"].get("cpus", 1) or 1), int(... .get("gpus", 0) or 0)
NeedCpus(chore) == IF chore.cpus = 0 THEN 1 ELSE chore.cpus
NeedGpus(chore) == chore.gpus

\* run_start or assigned_at or start or dflt
T0(chore, dflt) == Or4(chore.run_start, chore.assigned_at, chore.start, dflt)

\* reason filled from cancel_source; `other` is the branch's last resort
ReasonOf(src, other) ==
    IF src = "sailor_max_time" THEN "exceeded time limit"
    ELSE IF src = "user_time_limit" THEN "exceeded user time limit"
    ELSE IF src = "user" THEN "canceled by user"
    ELSE other

\* "idle" if used_cpus == 0 and used_gpus == 0 else "busy"
IdleOrBusy(s) == IF s.used_cpus = 0 /\ s.used_gpus = 0 THEN "idle" ELSE "busy"

\* a release that leaves the counters as they are
NoRelease(s, chore) == s

\* the sailor record after the release of a chore's reservation (clamped at 0)
Release(s, chore) ==
    LET s1 == [s EXCEPT !.used_cpus = Max(0, s.used_cpus - NeedCpus(chore)),
                        !.used_gpus = Max(0, s.used_gpus - NeedGpus(chore))]
    IN [s1 EXCEPT !.status = IdleOrBusy(s1)]

\* history variable: the time each stored chore entered cancel_requested, 0 if it is not in it
CrSince(chores2) ==
    [c \in DOMAIN chores2 |->
        IF chores2[c].status = "cancel_requested"
        THEN IF c \in DOMAIN chores /\ chores[c].status = "cancel_requested"
             THEN cr_since[c] ELSE now
        ELSE 0]

-----------------------------------------------------------------------------
(* Scheduling: eligible_sailors and try_assign_pending *)

\* crew.json in file order: its keys are written sorted
CrewOrder == SailorNames \o <<"bravo">>

SailorIndex(n) == CHOOSE i \in 1..Len(CrewOrder) : CrewOrder[i] = n

\* eligible_sailors keeps s, and the capacity filter of try_assign_pending accepts it
Candidate(s, chore) ==
    /\ chore.service # Null => chore.service \in s.services
    /\ ~(now - s.last_seen > ALIVE_THRESHOLD)
    /\ s.status # "down"
    /\ Max(s.cpus - s.used_cpus, 0) >= NeedCpus(chore)
    /\ Max(s.gpus - s.used_gpus, 0) >= NeedGpus(chore)
    /\ s.status \in {"idle", "busy"}

Score(s, chore) ==
    (Max(s.cpus - s.used_cpus, 0) - NeedCpus(chore))
    + (Max(s.gpus - s.used_gpus, 0) - NeedGpus(chore))

\* a test that lets a later sailor with the same score replace the best one
TiesToo(score, best) == best = <<>> \/ score >= best[1]

\* `if not best or score > best[0]`; best is (score, sailor), <<>> for None
Improves(score, best) == best = <<>> \/ score > best[1]

RECURSIVE BestWalk(_, _, _, _)
\* `for s in candidates` over the sailors names of the crew snapshot lc
BestWalk(names, lc, chore, best) ==
    IF names = <<>> THEN best
    ELSE LET n == Head(names)
         IN IF Candidate(lc[n], chore) /\ Improves(Score(lc[n], chore), best)
            THEN BestWalk(Tail(names), lc, chore, <<Score(lc[n], chore), n>>)
            ELSE BestWalk(Tail(names), lc, chore, best)

\* the sailor the pass picks for the chore in crew snapshot lc, Null if none
Best(lc, chore) ==
    LET best == BestWalk(SelectSeq(CrewOrder, LAMBDA n : n \in DOMAIN lc), lc, chore, <<>>)
    IN IF best = <<>> THEN Null ELSE best[2]

\* before: the used_cpus, used_gpus of the picked sailor when it was picked
IdlePass == [pc |-> "idle", crew |-> Empty, chores |-> Empty, todo |-> <<>>,
             cur |-> 0, sailor |-> Null, before |-> <<0, 0>>]

RECURSIVE PassRun(_, _, _, _, _)
\* The loop of try_assign_pending over the chores still to visit (todo), on the
\* snapshots lc, lch, up to its next launch POST; fc, fch are crew.json and
\* chores.json.  The result holds the thread (blocked in the POST, or idle when
\* the pass is over) and the two files.
PassRun(lc, lch, todo, fc, fch) ==
    IF todo = <<>> THEN [pass |-> IdlePass, crew |-> fc, chores |-> fch]
    ELSE
      LET c == Head(todo)
          chore == lch[c]
      IN IF chore.sailor # Null \/ chore.status # "pending"
         THEN PassRun(lc, lch, Tail(todo), fc, fch)
         ELSE
           LET b == Best(lc, chore)
           IN IF b # Null
              THEN \* optimistic allocation, save_crew, save_chores, then the POST
                LET lc2 == [lc EXCEPT ![b].used_cpus = @ + NeedCpus(chore),
                                      ![b].used_gpus = @ + NeedGpus(chore),
                                      ![b].status = "busy"]
                    lch2 == [lch EXCEPT ![c].sailor = b,
                                        ![c].status = "assigned",
                                        ![c].assigned_at = now,
                                        ![c].reason = Null]
                IN [pass |-> [pc |-> "dispatch", crew |-> lc2, chores |-> lch2,
                              todo |-> Tail(todo), cur |-> c, sailor |-> b,
                              before |-> <<lc[b].used_cpus, lc[b].used_gpus>>],
                    crew |-> lc2, chores |-> lch2]
              ELSE IF chore.reason # "no available sailor"
              THEN LET lch2 == [lch EXCEPT ![c].reason = "no available sailor"]
                   IN PassRun(lc, lch2, Tail(todo), fc, lch2)
              ELSE PassRun(lc, lch, Tail(todo), fc, fch)

\* try_assign_pending() called when the files hold fc, fch
try_assign_pending(fc, fch) == PassRun(fc, fch, SortedSeq(DOMAIN fch), fc, fch)

\* A handler ends with try_assign_pending().  The model holds one thread blocked
\* in a launch POST at a time: a second pass runs if it ends without a POST.
CallPass(fc, fch) ==
    LET r == try_assign_pending(fc, fch)
    IN /\ r.pass.pc = "idle" \/ pass.pc = "idle"
       /\ pass' = IF r.pass.pc = "idle" THEN pass ELSE r.pass
       /\ crew' = r.crew
       /\ chores' = r.chores
       /\ cr_since' = CrSince(r.chores)

\* the sailor receives the launch request of the pending POST
SailorReceives ==
    /\ pass.pc = "dispatch"
    /\ pass.cur \notin launched
    /\ launched' = launched \cup {pass.cur}
    /\ UNCHANGED <<now, sub, crew, chores, users, pass, loop, cancel_posted, cr_since, reissued>>

\* resp.raise_for_status() passes: the sailor answered 2xx
PassDispatchOk ==
    /\ pass.pc = "dispatch"
    /\ pass.cur \in launched
    /\ LET r == PassRun(pass.crew, pass.chores, pass.todo, crew, chores)
       IN /\ pass' = r.pass
          /\ crew' = r.crew
          /\ chores' = r.chores
          /\ cr_since' = CrSince(r.chores)
    /\ UNCHANGED <<now, sub, users, loop, launched, cancel_posted, reissued>>

\* a rollback that leaves the reservation in place
KeepReserved(s, chore) == s

\* the sailor record of the pass after the rollback of the chore's reservation
RolledBack(s, chore) ==
    [s EXCEPT !.used_cpus = @ - NeedCpus(chore),
              !.used_gpus = @ - NeedGpus(chore)]

\* the POST raised (connection error, timeout, non-2xx): rollback assignment
PassDispatchFail ==
    /\ pass.pc = "dispatch"
    /\ LET c == pass.cur
           b == pass.sailor
           chore == pass.chores[c]
           lch == [pass.chores EXCEPT ![c].sailor = Null,
                                      ![c].status = "pending",
                                      ![c].reason = "sailor unreachable"]
           lc == [pass.crew EXCEPT ![b] = RolledBack(pass.crew[b], chore)]
           r == PassRun(lc, lch, pass.todo, lc, lch)
       IN /\ pass' = r.pass
          /\ crew' = r.crew
          /\ chores' = r.chores
          /\ cr_since' = CrSince(r.chores)
    /\ UNCHANGED <<now, sub, users, loop, launched, cancel_posted, reissued>>

-----------------------------------------------------------------------------
(* The clock *)

Tick ==
    /\ now + TickStep <= MaxTime
    /\ now' = now + TickStep
    /\ sub' = 0
    /\ UNCHANGED <<crew, chores, users, pass, loop, launched, cancel_posted, cr_since, reissued>>

-----------------------------------------------------------------------------
(* Sailor lifecycle endpoints *)

\* the record /prereg writes for name when the crew store holds cr
PreregRecord(cr, name, services, max_time) ==
    [services |-> services,
     status |-> "down",
     last_seen |-> 0,
     cpus |-> IF name \in DOMAIN cr THEN cr[name].cpus ELSE 0,
     gpus |-> IF name \in DOMAIN cr THEN cr[name].gpus ELSE 0,
     used_cpus |-> 0,
     used_gpus |-> 0,
     max_time |-> max_time]

\* POST /prereg
preregister_sailor(name, services, max_time) ==
    /\ crew' = (name :> PreregRecord(crew, name, services, max_time)) @@ crew
    /\ last' = [op |-> "prereg", branch |-> "ok", arg |-> name]
    /\ UNCHANGED <<now, sub, chores, users, pass, loop, launched, cancel_posted, cr_since, reissued>>

\* a test that takes every name for a preregistered one
AnyName(cr, name) == TRUE

\* `name in crew`: prereg required
Preregistered(cr, name) == name \in DOMAIN cr

\* POST /sailor_register; 403 when the name is not preregistered
sailor_register(name, cpus, gpus) ==
    /\ IF ~Preregistered(crew, name)
       THEN /\ last' = [op |-> "sailor_register", branch |-> "403", arg |-> name]
            /\ UNCHANGED <<crew, chores, pass, cr_since>>
       ELSE /\ last' = [op |-> "sailor_register", branch |-> "ok", arg |-> name]
            /\ LET crew2 == [crew EXCEPT ![name].cpus = cpus,
                                         ![name].gpus = gpus,
                                         ![name].last_seen = now,
                                         ![name].status = "idle",
                                         ![name].used_cpus = 0,
                                         ![name].used_gpus = 0]
               IN CallPass(crew2, chores)
    /\ UNCHANGED <<now, sub, users, loop, launched, cancel_posted, reissued>>

\* POST /sailor_awake; 403 when the name is not preregistered
sailor_awake(name) ==
    /\ IF name \notin DOMAIN crew
       THEN /\ last' = [op |-> "sailor_awake", branch |-> "403", arg |-> name]
            /\ UNCHANGED crew
       ELSE /\ last' = [op |-> "sailor_awake", branch |-> "ok", arg |-> name]
            /\ LET s == crew[name]
               IN crew' = [crew EXCEPT ![name].last_seen = now,
                                       ![name].status =
                                           IF s.used_cpus >= s.cpus THEN "full"
                                           ELSE IF s.used_cpus > 0 THEN "busy" ELSE "idle"]
    /\ UNCHANGED <<now, sub, chores, users, pass, loop, launched, cancel_posted, cr_since, reissued>>

\* exit_code the watcher of src/sailor.py sends with a status
ExitCodeOf(status) ==
    IF status = "Running" THEN <<>>
    ELSE IF status = "Done" THEN <<0>>
    ELSE IF status = "Failed" THEN <<1>>
    ELSE <<-15>>

Lower(status) ==
    IF status = "Running" THEN "running"
    ELSE IF status = "Done" THEN "done"
    ELSE IF status = "Failed" THEN "failed"
    ELSE "canceled"

\* the chore record a terminal report writes
ReportedTerminal(chore, status) ==
    LET c1 == [chore EXCEPT !.status = Lower(status),
                            !.end = now,
                            !.exit_code = ExitCodeOf(status)]
    IN IF status = "Canceled" /\ chore.reason = Null
       THEN [c1 EXCEPT !.reason = ReasonOf(chore.cancel_source, "canceled")]
       ELSE c1

\* a report that counts as a heartbeat of the sailor
ReportTouches(name) ==
    /\ crew' = [n \in DOMAIN crew |->
                   IF n = name THEN [crew[n] EXCEPT !.last_seen = now] ELSE crew[n]]
    /\ UNCHANGED <<chores, pass, cr_since>>

\* `if not chore: return {"ok": True}`: nothing to do
ReportIgnored(name) == UNCHANGED <<crew, chores, pass, cr_since>>

\* a Running report that stamps run_start whatever the record holds
RunStartNow(chore, status) == now

\* `if str(status).lower() == "running" and not chore.get("run_start")`
RunStart(chore, status) ==
    IF Lower(status) = "running" /\ chore.run_start = 0 THEN now ELSE chore.run_start

\* POST /sailor_report, sent by a sailor about a chore it was asked to launch
sailor_report(name, c, status) ==
    /\ c \in launched
    /\ last' = [op |-> "sailor_report",
                branch |-> IF c \notin DOMAIN chores THEN "unknown" ELSE Lower(status),
                arg |-> c]
    /\ IF c \notin DOMAIN chores
       THEN ReportIgnored(name)
       ELSE IF status \in {"Done", "Canceled", "Failed"}
       THEN LET crew2 == IF name \in DOMAIN crew
                         THEN [crew EXCEPT ![name] = Release(crew[name], chores[c])]
                         ELSE crew
                chores2 == [chores EXCEPT ![c] = ReportedTerminal(chores[c], status)]
            IN CallPass(crew2, chores2)
       ELSE /\ chores' = [chores EXCEPT ![c].status = Lower(status),
                                        ![c].run_start = RunStart(chores[c], status)]
            /\ cr_since' = CrSince(chores')
            /\ UNCHANGED <<crew, pass>>
    /\ UNCHANGED <<now, sub, users, loop, launched, cancel_posted, reissued>>

-----------------------------------------------------------------------------
(* User endpoints *)

\* POST /user_upsert
user_upsert(uid, time_limit, chores_limit) ==
    /\ users' = (uid :> [time_limit |-> time_limit, chores_limit |-> chores_limit]) @@ users
    /\ last' = [op |-> "user_upsert", branch |-> "ok", arg |-> uid]
    /\ UNCHANGED <<now, sub, crew, chores, pass, loop, launched, cancel_posted, cr_since, reissued>>

UserTimeLimit(us, owner) == IF owner \in DOMAIN us THEN us[owner].time_limit ELSE <<>>
UserChoresLimit(us, owner) == IF owner \in DOMAIN us THEN us[owner].chores_limit ELSE 0

\* the chores user_chore counts against chores_limit
ActiveCount(owner) ==
    Cardinality({c \in DOMAIN chores :
        /\ chores[c].owner = owner
        /\ chores[c].status \in ACTIVE_STATUSES
        /\ ~(/\ chores[c].status = "cancel_requested"
             /\ now - Or2(chores[c].cancel_requested_at, T0(chores[c], now))
                   >= CAPTAIN_CANCEL_REQUESTED_TTL)})

\* str(int(time.time() * 1000)) when the request arrives ms milliseconds into the
\* current clock reading
NewChoreId(ms) == now * 1000 + ms

\* a test that lets the owner hold one chore more than the limit
LimitExceeded(limit, active_count) == limit > 0 /\ active_count > limit

\* the test that raises HTTPException(403, "user chores limit reached")
LimitReached(limit, active_count) == limit > 0 /\ active_count >= limit

\* POST /user_chore; 403 when the owner's chores_limit is reached.  The request
\* arrives in the millisecond of the previous submission or in the next one; the
\* store holds at most cap chores.
Submit(owner, cpus, gpus, service, ms, cap) ==
    /\ ms \in {sub, sub + 1}
    /\ ms <= MaxSub
    /\ IF LimitReached(UserChoresLimit(users, owner), ActiveCount(owner))
       THEN /\ last' = [op |-> "user_chore", branch |-> "403", arg |-> owner]
            /\ UNCHANGED <<sub, crew, chores, pass, cr_since, reissued>>
       ELSE /\ last' = [op |-> "user_chore", branch |-> "ok", arg |-> NewChoreId(ms)]
            /\ LET chores2 == (NewChoreId(ms) :>
                                  NewChore(IF cpus = 0 THEN 1 ELSE cpus, gpus, owner, service))
                              @@ chores
               IN /\ Cardinality(DOMAIN chores2) <= cap
                  /\ CallPass(crew, chores2)
            /\ sub' = ms
            /\ reissued' = IF NewChoreId(ms) \in DOMAIN chores
                           THEN reissued \cup {NewChoreId(ms)} ELSE reissued
    /\ UNCHANGED <<now, users, loop, launched, cancel_posted>>

user_chore(owner, cpus, gpus, service, ms) == Submit(owner, cpus, gpus, service, ms, MaxChores)

\* A cancel POST for chore c reaches the sailor: captain_cancel answers ok when
\* it holds no process for c, and sets the cancel_requested flag of c otherwise
CancelPost(c) ==
    [x \in DOMAIN cancel_posted \cup {c} |->
        IF x = c THEN c \in launched \/ (c \in DOMAIN cancel_posted /\ cancel_posted[c])
        ELSE cancel_posted[x]]

\* POST /user_cancel; 404 when the chore is not in the store
user_cancel(c, reason) ==
    /\ c \in DOMAIN chores
    /\ last' = [op |-> "user_cancel", branch |-> "ok", arg |-> c]
    /\ LET r == IF reason = Null THEN "canceled by user" ELSE reason
       IN IF chores[c].sailor # Null
          THEN IF chores[c].sailor \in DOMAIN crew
               THEN \* cancel_requested is saved, then the cancel POST is sent
                    /\ chores' = [chores EXCEPT ![c].status = "cancel_requested",
                                                ![c].reason = r,
                                                ![c].cancel_requested_at = now,
                                                ![c].cancel_source = "user"]
                    /\ cancel_posted' = CancelPost(c)
               ELSE UNCHANGED <<chores, cancel_posted>>
          ELSE /\ chores' = [chores EXCEPT ![c].status = "canceled",
                                           ![c].end = now,
                                           ![c].reason = r]
               /\ UNCHANGED cancel_posted
    /\ cr_since' = CrSince(chores')
    /\ UNCHANGED <<now, sub, crew, users, pass, loop, launched, reissued>>

-----------------------------------------------------------------------------
(* The reconciliation loop, _cleanup_loop *)

\* loaded: the chores store as the iteration loaded it
IdleLoop == [pc |-> "idle", now |-> 0, crew |-> Empty, chores |-> Empty,
             todo |-> <<>>, cur |-> 0, status |-> Null, changed |-> FALSE,
             loaded |-> Empty]

\* dur of the by_owner items: 0 for a pending chore
Dur(chore, t) ==
    IF chore.status = "pending" THEN 0
    ELSE IF T0(chore, 0) # 0 THEN Max(0, t - T0(chore, 0)) ELSE 0

RECURSIVE InsertByT0(_, _, _, _)
\* x placed after the items of the sorted sequence whose key is not greater (sorted() is stable)
InsertByT0(x, sorted, lch, t) ==
    IF sorted = <<>> THEN <<x>>
    ELSE IF T0(lch[Head(sorted)], t) <= T0(lch[x], t)
         THEN <<Head(sorted)>> \o InsertByT0(x, Tail(sorted), lch, t)
         ELSE <<x>> \o sorted

RECURSIVE SortByT0(_, _, _)
\* sorted(items, key=run_start or assigned_at or start or now)
SortByT0(items, lch, t) ==
    IF items = <<>> THEN <<>>
    ELSE InsertByT0(items[Len(items)], SortByT0(SubSeq(items, 1, Len(items) - 1), lch, t), lch, t)

RECURSIVE BudgetWalkStrict(_, _, _, _, _)
\* a walk that keeps a chore only while the total stays strictly under the limit
BudgetWalkStrict(items, total, limit, lch, t) ==
    IF items = <<>> THEN {}
    ELSE LET dur == Dur(lch[Head(items)], t)
         IN IF total + dur < limit
            THEN BudgetWalkStrict(Tail(items), total + dur, limit, lch, t)
            ELSE {Head(items)} \cup BudgetWalkStrict(Tail(items), total, limit, lch, t)

RECURSIVE BudgetWalk(_, _, _, _, _)
\* the chores of items_sorted that go to the cancel list
BudgetWalk(items, total, limit, lch, t) ==
    IF items = <<>> THEN {}
    ELSE LET dur == Dur(lch[Head(items)], t)
         IN IF total + dur <= limit
            THEN BudgetWalk(Tail(items), total + dur, limit, lch, t)
            ELSE {Head(items)} \cup BudgetWalk(Tail(items), total, limit, lch, t)

\* by_owner[owner]: the owner's non-terminal chores in store order
OwnerItems(owner, lch) ==
    SelectSeq(SortedSeq(DOMAIN lch),
              LAMBDA c : lch[c].owner = owner /\ lch[c].status \notin TERMINAL_STATUSES)

\* the chores step 1 of the loop marks
BudgetCancel(lch, lus, t) ==
    UNION {IF _parse_max_time(UserTimeLimit(lus, o)) <= 0 THEN {}
           ELSE BudgetWalk(SortByT0(OwnerItems(o, lch), lch, t), 0,
                           _parse_max_time(UserTimeLimit(lus, o)), lch, t)
           : o \in {lch[c].owner : c \in DOMAIN lch}}

\* the chores snapshot after step 1
BudgetMark(lch, lus, t) ==
    [c \in DOMAIN lch |->
        IF c \in BudgetCancel(lch, lus, t)
        THEN [lch[c] EXCEPT !.status = "cancel_requested",
                            !.reason = "exceeded user time limit",
                            !.cancel_requested_at = t,
                            !.cancel_source = "user_time_limit"]
        ELSE lch[c]]

\* a max_time test that does not ask for a positive max_time
MaxTimeUnguarded(l, c) ==
    LET chore == l.chores[c]
        max_time_s == IF chore.sailor \in DOMAIN l.crew
                      THEN _parse_max_time(l.crew[chore.sailor].max_time) ELSE 0
    IN /\ chore.status \notin TERMINAL_STATUSES
       /\ chore.sailor # Null
       /\ T0(chore, 0) # 0
       /\ l.now - T0(chore, 0) > max_time_s

\* the max_time test of the loop on one chore of its snapshots
MaxTimeExceeded(l, c) ==
    LET chore == l.chores[c]
        max_time_s == IF chore.sailor \in DOMAIN l.crew
                      THEN _parse_max_time(l.crew[chore.sailor].max_time) ELSE 0
    IN /\ chore.status \notin TERMINAL_STATUSES
       /\ chore.sailor # Null
       /\ max_time_s > 0
       /\ T0(chore, 0) # 0
       /\ l.now - T0(chore, 0) > max_time_s

\* the chore a TTL finalization writes
Finalized(chore, t) ==
    [chore EXCEPT !.status = "canceled",
                  !.end = t,
                  !.reason = IF chore.reason = Null
                             THEN ReasonOf(chore.cancel_source, "canceled by timeout")
                             ELSE chore.reason]

RECURSIVE LoopRun(_, _, _)
\* The second for-loop of an iteration, on the loop thread l, up to its next cancel
\* POST; fc, fch are crew.json and chores.json.  l.pc says where the thread is:
\*   "next"       about to visit Head(l.todo)
\*   "after_max"  back from the cancel POST of the max_time enforcement on l.cur
\*   "after_ttl"  back from the cancel POST of the TTL finalization of l.cur
\* The result holds the thread (pc "post_max" or "post_ttl" when it blocks in a
\* POST, idle when the iteration is over), the two files and the chore the POST
\* is about (0 if none).
LoopRun(l, fc, fch) ==
    IF l.pc = "next" /\ l.todo = <<>>
    THEN \* if changed: save_chores(chores)
         [loop |-> IdleLoop, crew |-> fc,
          chores |-> IF l.changed THEN l.chores ELSE fch, post |-> 0]
    ELSE
      LET c == IF l.pc = "next" THEN Head(l.todo) ELSE l.cur
          chore == l.chores[c]
          status == IF l.pc = "next" THEN chore.status ELSE l.status
          rest == IF l.pc = "next" THEN Tail(l.todo) ELSE l.todo
      IN IF l.pc = "next" /\ MaxTimeExceeded(l, c)
         THEN \* mark, save_chores, then the POST
           LET lch2 == [l.chores EXCEPT ![c].status = "cancel_requested",
                                        ![c].reason = "exceeded time limit",
                                        ![c].cancel_requested_at = l.now,
                                        ![c].cancel_source = "sailor_max_time"]
           IN [loop |-> [l EXCEPT !.pc = "post_max", !.chores = lch2, !.todo = rest,
                                  !.cur = c, !.status = status, !.changed = TRUE],
               crew |-> fc, chores |-> lch2, post |-> c]
         ELSE IF l.pc # "after_ttl" /\ status = "cancel_requested"
         THEN \* finalize long-standing cancel_requested
           LET backfill == chore.cancel_requested_at = 0
               cr_at == IF backfill THEN T0(chore, l.now) ELSE chore.cancel_requested_at
               lch2 == [l.chores EXCEPT ![c].cancel_requested_at = cr_at]
               l2 == [l EXCEPT !.chores = lch2, !.changed = l.changed \/ backfill,
                               !.todo = rest, !.cur = c, !.status = status]
           IN IF cr_at # 0 /\ l.now - cr_at >= CAPTAIN_CANCEL_REQUESTED_TTL
              THEN IF chore.sailor # Null
                   THEN [loop |-> [l2 EXCEPT !.pc = "post_ttl"],
                         crew |-> fc, chores |-> fch, post |-> c]
                   ELSE LoopRun([l2 EXCEPT !.pc = "next",
                                           !.chores = [lch2 EXCEPT ![c] = Finalized(lch2[c], l.now)],
                                           !.changed = TRUE,
                                           !.cur = 0, !.status = Null],
                                fc, fch)
              ELSE LoopRun([l2 EXCEPT !.pc = "next", !.cur = 0, !.status = Null], fc, fch)
         ELSE IF l.pc = "after_ttl"
         THEN \* free resources optimistically (save_crew), finalize chore as canceled
           LET lc2 == IF chore.sailor \in DOMAIN l.crew
                      THEN [l.crew EXCEPT ![chore.sailor] = Release(l.crew[chore.sailor], chore)]
                      ELSE l.crew
               fc2 == IF chore.sailor \in DOMAIN l.crew THEN lc2 ELSE fc
           IN LoopRun([l EXCEPT !.pc = "next", !.crew = lc2,
                                !.chores = [l.chores EXCEPT ![c] = Finalized(chore, l.now)],
                                !.changed = TRUE, !.cur = 0, !.status = Null],
                      fc2, fch)
         ELSE IF status \in TERMINAL_STATUSES /\ chore.end # 0
                 /\ l.now - chore.end >= CAPTAIN_CLEANUP_TTL
         THEN \* chores.pop(cid)
           LoopRun([l EXCEPT !.pc = "next", !.todo = rest, !.cur = 0, !.status = Null,
                             !.chores = [k \in DOMAIN l.chores \ {c} |-> l.chores[k]],
                             !.changed = TRUE],
                   fc, fch)
         ELSE LoopRun([l EXCEPT !.pc = "next", !.todo = rest, !.cur = 0, !.status = Null],
                      fc, fch)

\* an owner that int() rejects, such as "alice": user_chore stores the owner of
\* the payload as it comes
NonNumericOwner == -999

\* `owner = int(chore.get("owner") or 0)` raises ValueError on a non-terminal chore
LoopRaises(lch) ==
    \E c \in DOMAIN lch :
       lch[c].status \notin TERMINAL_STATUSES /\ lch[c].owner = NonNumericOwner

\* One iteration raises while it builds by_owner: `except Exception` logs the
\* error, nothing was written, the loop waits for its next turn (the idle
\* thread keeps the clock reading of the iteration that failed)
LoopFails ==
    /\ loop.pc = "idle"
    /\ LoopRaises(chores)
    /\ loop' = [IdleLoop EXCEPT !.now = now]
    /\ UNCHANGED <<now, sub, crew, chores, users, pass, launched, cancel_posted,
                   cr_since, reissued>>

\* One iteration starts: the three loads, step 1 (its save_chores after each
\* mark; its cancel POST is never sent, the status test that guards it reads the
\* status just written), then the second for-loop up to its first POST.
LoopStart ==
    /\ loop.pc = "idle"
    /\ ~LoopRaises(chores)
    /\ LET marked == BudgetMark(chores, users, now)
           any == BudgetCancel(chores, users, now) # {}
           r == LoopRun([pc |-> "next", now |-> now, crew |-> crew, chores |-> marked,
                         todo |-> SortedSeq(DOMAIN chores), cur |-> 0, status |-> Null,
                         changed |-> any, loaded |-> chores],
                        crew, IF any THEN marked ELSE chores)
       IN /\ loop' = r.loop
          /\ crew' = r.crew
          /\ chores' = r.chores
          /\ cancel_posted' = IF r.post = 0 THEN cancel_posted ELSE CancelPost(r.post)
          /\ cr_since' = CrSince(r.chores)
    /\ UNCHANGED <<now, sub, users, pass, launched, reissued>>

\* The cancel POST of the loop returns or raises (the loop ignores which)
LoopPost ==
    /\ loop.pc \in {"post_max", "post_ttl"}
    /\ LET r == LoopRun([loop EXCEPT !.pc = IF loop.pc = "post_max" THEN "after_max"
                                            ELSE "after_ttl"],
                        crew, chores)
       IN /\ loop' = r.loop
          /\ crew' = r.crew
          /\ chores' = r.chores
          /\ cancel_posted' = IF r.post = 0 THEN cancel_posted ELSE CancelPost(r.post)
          /\ cr_since' = CrSince(r.chores)
    /\ UNCHANGED <<now, sub, users, pass, launched, reissued>>

-----------------------------------------------------------------------------
(* A Sailor process (sailor.py): the launch and cancel endpoints run on worker
   threads, each launched chore has a watcher thread, and nothing is locked.
   Threads interleave between the statements that read or write the two tables. *)

ShipChores == {1}                   \* the chore ids the Captain names in its requests
ShipLaunches == 2                   \* launch requests the Sailor receives in a run
ShipCancels == 1                    \* cancel requests the Sailor receives in a run
ExitCodes == {0, 1}                 \* what a script exits with on its own
SIGTERM == 15                       \* Popen.wait() returns -15 after a SIGTERM

\* running = {}, proc_by_chore = {}; procs: the subprocesses started so far, by pid;
\* threads: the request and watcher threads started so far; reports: the
\* /sailor_report POSTs sent so far
\* root: os.geteuid() == 0
IdleShip == [running |-> Empty, proc_by_chore |-> Empty, procs |-> <<>>,
             threads |-> <<>>, reports |-> <<>>, root |-> FALSE]

\* a thread: p is its local variable p; popen is, for a watcher, the subprocess of
\* the launch that started it
Thread(kind, c) ==
    [kind |-> kind, chore |-> c, pc |-> "begin", p |-> 0, status |-> Null, popen |-> 0,
     owner |-> "self", wd |-> "none"]

Threads(kind) == {i \in DOMAIN ship.threads : ship.threads[i].kind = kind}

\* _report_status(conf, chore_id, status, exit_code) sent by thread i
Report(i, c, status, exit_code) ==
    [by |-> i, chore |-> c, status |-> status, exit_code |-> exit_code]

\* d.pop(c, None)
Pop(d, c) == [k \in DOMAIN d \ {c} |-> d[k]]

\* a step of the Sailor: the Captain's state is not involved
Ship(A) == A /\ UNCHANGED <<now, sub, crew, chores, users, pass, loop, launched,
                            cancel_posted, cr_since, reissued, last, desk, chest, calls>>

\* POST /captain_request for chore c arrives: a worker thread takes it
LaunchArrives(c) ==
    /\ Cardinality(Threads("launch")) < ShipLaunches
    /\ ship' = [ship EXCEPT !.threads = Append(@, Thread("launch", c))]

\* the owners and working directories of a launch payload: the sailor's own
\* uid (or none), another uid, a string that is no integer; no wd, a
\* directory, a path that is no directory
PayloadOwners == {"self", "other", "alice"}
PayloadDirs == {"none", "dir", "missing"}

\* POST /captain_request for chore c with such an owner and wd
LaunchArrivesWith(c, owner, wd) ==
    /\ Cardinality(Threads("launch")) < ShipLaunches
    /\ ship' = [ship EXCEPT !.threads =
                    Append(@, [Thread("launch", c) EXCEPT !.owner = owner, !.wd = wd])]

\* a sailor that starts whatever it is asked to
NoPolicy(t, root) == "popen"

\* from the uid resolution to the working directory: the HTTPException the
\* request of thread t ends with, or "popen" when it goes on
Policy(t, root) ==
    IF t.owner = "alice" THEN "400"
    ELSE IF t.owner # "self" /\ ~root THEN "403"
    ELSE IF t.wd = "missing" THEN "400"
    ELSE "popen"

\* `if chore_id in proc_by_chore: return {"ok": True}`, then the tests on the
\* payload, which touch neither table
LaunchCheck(i) ==
    /\ ship.threads[i].kind = "launch"
    /\ ship.threads[i].pc = "begin"
    /\ ship' = [ship EXCEPT !.threads[i].pc =
                    IF ship.threads[i].chore \in DOMAIN ship.proc_by_chore
                    THEN "ok" ELSE Policy(ship.threads[i], ship.root)]

\* psutil.Popen(...) succeeds, proc_by_chore[chore_id] = popen
LaunchPopen(i) ==
    /\ ship.threads[i].kind = "launch"
    /\ ship.threads[i].pc = "popen"
    /\ LET c == ship.threads[i].chore
           pid == Len(ship.procs) + 1
       IN ship' = [ship EXCEPT
              !.procs = Append(@, [chore |-> c, alive |-> TRUE, ret |-> 0, killed |-> FALSE]),
              !.proc_by_chore = (c :> pid) @@ @,
              !.threads[i].pc = "table",
              !.threads[i].p = pid]

\* psutil.Popen(...) raises: the handler reports Failed with exit code -1 and
\* answers 500
LaunchPopenFails(i) ==
    /\ ship.threads[i].kind = "launch"
    /\ ship.threads[i].pc = "popen"
    /\ ship' = [ship EXCEPT
           !.reports = Append(@, Report(i, ship.threads[i].chore, "Failed", -1)),
           !.threads[i].pc = "500"]

\* running[chore_id] = {..., "cancel_requested": False}, save_running, and the
\* watcher thread is started
LaunchTable(i) ==
    /\ ship.threads[i].kind = "launch"
    /\ ship.threads[i].pc = "table"
    /\ LET c == ship.threads[i].chore
       IN ship' = [ship EXCEPT
              !.running = (c :> [pid |-> ship.threads[i].p, cancel_requested |-> FALSE]) @@ @,
              !.threads = Append([@ EXCEPT ![i].pc = "ok"],
                                 [Thread("watch", c) EXCEPT !.popen = ship.threads[i].p])]

\* _watch_process: p = proc_by_chore.get(chore_id), return if none; then the
\* Running report
WatchBegin(i) ==
    /\ ship.threads[i].kind = "watch"
    /\ ship.threads[i].pc = "begin"
    /\ LET c == ship.threads[i].chore
       IN IF c \in DOMAIN ship.proc_by_chore
          THEN ship' = [ship EXCEPT
                   !.reports = Append(@, Report(i, c, "Running", Null)),
                   !.threads[i].pc = "wait",
                   !.threads[i].p = ship.proc_by_chore[c]]
          ELSE ship' = [ship EXCEPT !.threads[i].pc = "return"]

\* p.wait() returns; the cancel_requested flag of the running table decides
\* between Canceled and Done or Failed; the terminal report is sent
WatchExit(i) ==
    /\ ship.threads[i].kind = "watch"
    /\ ship.threads[i].pc = "wait"
    /\ ~ship.procs[ship.threads[i].p].alive
    /\ LET c == ship.threads[i].chore
           ret == ship.procs[ship.threads[i].p].ret
           was_canceled == c \in DOMAIN ship.running /\ ship.running[c].cancel_requested
           status == IF was_canceled THEN "Canceled"
                     ELSE IF ret = 0 THEN "Done" ELSE "Failed"
       IN ship' = [ship EXCEPT
              !.reports = Append(@, Report(i, c, status, ret)),
              !.threads[i].pc = "finally",
              !.threads[i].status = status]

\* finally: proc_by_chore.pop, running.pop, save_running
WatchFinally(i) ==
    /\ ship.threads[i].kind = "watch"
    /\ ship.threads[i].pc = "finally"
    /\ ship' = [ship EXCEPT
           !.proc_by_chore = Pop(@, ship.threads[i].chore),
           !.running = Pop(@, ship.threads[i].chore),
           !.threads[i].pc = "return"]

\* POST /captain_cancel for chore c arrives
CancelArrives(c) ==
    /\ Cardinality(Threads("cancel")) < ShipCancels
    /\ ship' = [ship EXCEPT !.threads = Append(@, Thread("cancel", c))]

\* p = proc_by_chore.get(chore_id); `if not p: return {"ok": True}`
CancelCheck(i) ==
    /\ ship.threads[i].kind = "cancel"
    /\ ship.threads[i].pc = "begin"
    /\ LET c == ship.threads[i].chore
       IN IF c \in DOMAIN ship.proc_by_chore
          THEN ship' = [ship EXCEPT !.threads[i].pc = "flag",
                                    !.threads[i].p = ship.proc_by_chore[c]]
          ELSE ship' = [ship EXCEPT !.threads[i].pc = "ok"]

\* info = running.get(chore_id) or {}; info["cancel_requested"] = True;
\* running[chore_id] = info; save_running
CancelFlag(i) ==
    /\ ship.threads[i].kind = "cancel"
    /\ ship.threads[i].pc = "flag"
    /\ LET c == ship.threads[i].chore
           info == IF c \in DOMAIN ship.running THEN ship.running[c]
                   ELSE [pid |-> 0, cancel_requested |-> FALSE]
       IN ship' = [ship EXCEPT
              !.running = (c :> [info EXCEPT !.cancel_requested = TRUE]) @@ @,
              !.threads[i].pc = "signal"]

\* the cancel ladder: SIGTERM to the group and the leader, SIGKILL after 5 s
CancelSignal(i) ==
    /\ ship.threads[i].kind = "cancel"
    /\ ship.threads[i].pc = "signal"
    /\ LET pid == ship.threads[i].p
       IN ship' = [ship EXCEPT
              !.procs[pid] = IF @.alive
                             THEN [@ EXCEPT !.alive = FALSE, !.ret = 0 - SIGTERM,
                                            !.killed = TRUE]
                             ELSE @,
              !.threads[i].pc = "ok"]

\* the script of subprocess pid ends on its own
ProcExits(pid, ret) ==
    /\ ship.procs[pid].alive
    /\ ship' = [ship EXCEPT !.procs[pid].alive = FALSE, !.procs[pid].ret = ret]

NextShip ==
    \/ \E c \in ShipChores : Ship(LaunchArrives(c))
    \/ \E i \in DOMAIN ship.threads : Ship(LaunchCheck(i))
    \/ \E i \in DOMAIN ship.threads : Ship(LaunchPopen(i))
    \/ \E i \in DOMAIN ship.threads : Ship(LaunchPopenFails(i))
    \/ \E i \in DOMAIN ship.threads : Ship(LaunchTable(i))
    \/ \E i \in DOMAIN ship.threads : Ship(WatchBegin(i))
    \/ \E i \in DOMAIN ship.threads : Ship(WatchExit(i))
    \/ \E i \in DOMAIN ship.threads : Ship(WatchFinally(i))
    \/ \E c \in ShipChores : Ship(CancelArrives(c))
    \/ \E i \in DOMAIN ship.threads : Ship(CancelCheck(i))
    \/ \E i \in DOMAIN ship.threads : Ship(CancelFlag(i))
    \/ \E i \in DOMAIN ship.threads : Ship(CancelSignal(i))
    \/ \E pid \in DOMAIN ship.procs, ret \in ExitCodes : Ship(ProcExits(pid, ret))

-----------------------------------------------------------------------------
(* The relational variant: the Chores and Sailors tables of boat_chest, the
   captain's commands, the lieutenant's loop, a sailor's loop and its watcher
   threads. Every SQL statement is one step of the process that issues it. *)

None == 0           \* NULL in the columns PID, Start and End


MIN_SAILOR_ALIVE_ESTIMATION == 10

ChestChores == 2    \* rows inserted into Chores
ChestCalls == 3     \* commands of the captain

get_chore_status(chore) ==
    IF chore.End = -2 THEN "CANCEL_REQUESTED"
    ELSE IF chore.End # None /\ chore.PID = -1 THEN "CANCELED"
    ELSE IF chore.Start # None
         THEN IF chore.End # None
              THEN IF chore.PID = None THEN "FAILED"
                   ELSE "COMPLETED"
              ELSE "RUNNING"
    ELSE IF chore.Sailor # Null THEN "ASSIGNED"
    ELSE "PENDING"

get_sailor_status(last_seen, used_cpus) ==
    IF now - last_seen > MIN_SAILOR_ALIVE_ESTIMATION THEN "DOWN"
    ELSE IF used_cpus > 0 THEN "WORKING"
    ELSE "READY"

\* the pid of the process a sailor starts for chore c
Pid(c) == 100 + c

\* the tables after setup_sailor, both loops asleep, no process
IdleChest ==
    [Chores |-> Empty,
     Sailors |-> [n \in Sailors |->
                     [CPUS |-> SailorCpus, GPUS |-> SailorGpus, LastSeen |-> StartTime,
                      UsedCPUS |-> 0, UsedGPUS |-> 0]],
     lieutenant |-> [pc |-> "sleep", sailors |-> Empty, chores |-> <<>>],
     sailor |-> [n \in Sailors |-> [pc |-> "sleep", chores |-> <<>>]],
     connected_processes |-> [n \in Sailors |-> {}],
     procs |-> Empty,
     watchers |-> {},
     asked |-> {},
     killed |-> {}]

\* SELECT * FROM Chores, the rows of table ch in ID order
get_chores(ch) ==
    LET ids == SortedSeq(DOMAIN ch.Chores)
    IN [k \in DOMAIN ids |-> [ID |-> ids[k]] @@ ch.Chores[ids[k]]]

\* captain --chore: INSERT INTO Chores
add_chore(cpus, gpus) ==
    /\ Cardinality(DOMAIN chest.Chores) < ChestChores
    /\ chest' = [chest EXCEPT !.Chores =
                    (Cardinality(DOMAIN chest.Chores) + 1 :>
                        [cpus |-> cpus, gpus |-> gpus, Infos |-> "in registry",
                         Sailor |-> Null, PID |-> None, Start |-> None, End |-> None])
                    @@ @]

\* captain --cancel: UPDATE Chores SET Start = now, End = -2; asked remembers
\* the chores that were RUNNING then
captain_cancel_chore(c) ==
    /\ c \in DOMAIN chest.Chores
    /\ chest' = [chest EXCEPT !.Chores[c].Start = now, !.Chores[c].End = -2,
                              !.asked = IF get_chore_status(chest.Chores[c])
                                            = "RUNNING"
                                        THEN @ \cup {c} ELSE @]

\* assign_chores: sailors = get_sailors()
LieutenantSailors ==
    /\ chest.lieutenant.pc = "sleep"
    /\ chest' = [chest EXCEPT
           !.lieutenant.pc = "chores",
           !.lieutenant.sailors =
               [n \in DOMAIN chest.Sailors |->
                   [CPUS |-> chest.Sailors[n].CPUS, GPUS |-> chest.Sailors[n].GPUS,
                    UsedCPUS |-> chest.Sailors[n].UsedCPUS,
                    UsedGPUS |-> chest.Sailors[n].UsedGPUS,
                    Status |-> get_sailor_status(chest.Sailors[n].LastSeen,
                                                 chest.Sailors[n].UsedCPUS)]]]

\* assign_chores: chores = get_chores()
LieutenantChores ==
    /\ chest.lieutenant.pc = "chores"
    /\ chest' = [chest EXCEPT !.lieutenant.pc = "assign",
                              !.lieutenant.chores = get_chores(chest)]

\* the candidates of the lieutenant's snapshot that fit the chore
Fitting(chore) ==
    {n \in DOMAIN chest.lieutenant.sailors :
        LET s == chest.lieutenant.sailors[n]
        IN /\ s.Status # "DOWN"
           /\ s.CPUS - s.UsedCPUS >= chore.cpus
           /\ s.GPUS - s.UsedGPUS >= chore.gpus}

\* assign_chore(chore, sailors) for the next chore of the snapshot: to sailor
\* n, the first of the shuffled candidates that fits, or to none (n = Null)
assign_chore(n) ==
    /\ chest.lieutenant.pc = "assign"
    /\ chest.lieutenant.chores # <<>>
    /\ LET chore == Head(chest.lieutenant.chores)
           rest == Tail(chest.lieutenant.chores)
           went == [chest EXCEPT !.lieutenant.chores = rest,
                                 !.lieutenant.pc = IF rest = <<>> THEN "sleep" ELSE "assign"]
       IN IF get_chore_status(chore) # "PENDING"
          THEN n = Null /\ chest' = went
          ELSE IF Fitting(chore) = {}
          THEN /\ n = Null
               /\ chest' = [went EXCEPT !.Chores[chore.ID].Infos = "No available sailor"]
          ELSE /\ n \in Fitting(chore)
               /\ chest' = [went EXCEPT
                      !.lieutenant.sailors[n].UsedCPUS = @ + chore.cpus,
                      !.lieutenant.sailors[n].UsedGPUS = @ + chore.gpus,
                      !.Chores[chore.ID].Sailor = n,
                      !.Chores[chore.ID].Infos = "Assigned to sailor " \o n]

\* the lieutenant found no chore
LieutenantSleeps ==
    /\ chest.lieutenant.pc = "assign"
    /\ chest.lieutenant.chores = <<>>
    /\ chest' = [chest EXCEPT !.lieutenant.pc = "sleep"]

\* loop of the sailor: set_sailor_ressource_infos()
set_sailor_ressource_infos(n) ==
    /\ chest.sailor[n].pc = "sleep"
    /\ chest' = [chest EXCEPT !.sailor[n].pc = "load",
                              !.Sailors[n].CPUS = SailorCpus,
                              !.Sailors[n].GPUS = SailorGpus,
                              !.Sailors[n].LastSeen = now]

\* handle_chores: chores = get_chores_by_sailor_name(sailor_name)
get_chores_by_sailor_name(n) ==
    /\ chest.sailor[n].pc = "load"
    /\ chest' = [chest EXCEPT !.sailor[n].pc = "handle",
                              !.sailor[n].chores =
                                  SelectSeq(get_chores(chest), LAMBDA r : r.Sailor = n)]

RECURSIVE Used(_, _)
\* the cpus or gpus the rows of a sequence ask for
Used(rows, gpu) ==
    IF rows = <<>> THEN 0
    ELSE (IF gpu THEN Head(rows).gpus ELSE Head(rows).cpus) + Used(Tail(rows), gpu)

\* update_sailor_ressource_use(): the RUNNING chores of sailor n, as the table
\* has them now, make its UsedCPUS and UsedGPUS
set_sailor_use(ch, n) ==
    LET mine == SelectSeq(get_chores(ch),
                          LAMBDA r : r.Sailor = n
                                     /\ get_chore_status(r) = "RUNNING")
    IN [ch EXCEPT !.Sailors[n].UsedCPUS = Used(mine, FALSE),
                  !.Sailors[n].UsedGPUS = Used(mine, TRUE),
                  !.Sailors[n].LastSeen = now]

\* set_chore_canceled(chore_id)
set_chore_canceled(ch, c) ==
    [ch EXCEPT !.Chores[c].Infos = "Canceled", !.Chores[c].End = now, !.Chores[c].PID = -1]

\* handle_chores: a chore that is neither ASSIGNED nor CANCEL_REQUESTED
HandleOther(n) ==
    /\ chest.sailor[n].pc = "handle"
    /\ chest.sailor[n].chores # <<>>
    /\ get_chore_status(Head(chest.sailor[n].chores))
          \notin {"ASSIGNED", "CANCEL_REQUESTED"}
    /\ chest' = [chest EXCEPT !.sailor[n].chores = Tail(@)]

\* run_chore(chore): create_process starts the process, attach_process
\* remembers it and starts its watcher
create_process(n) ==
    /\ chest.sailor[n].pc = "handle"
    /\ chest.sailor[n].chores # <<>>
    /\ get_chore_status(Head(chest.sailor[n].chores)) = "ASSIGNED"
    /\ LET pid == Pid(Head(chest.sailor[n].chores).ID)
       IN chest' = [chest EXCEPT
              !.sailor[n].pc = "pid",
              !.procs = (pid :> [exited |-> FALSE, returncode |-> 0]) @@ @,
              !.connected_processes[n] = @ \cup {pid},
              !.watchers = @ \cup {pid}]

\* run_chore(chore): set_chore_pid(chore["ID"], pid)
set_chore_pid(n) ==
    /\ chest.sailor[n].pc = "pid"
    /\ LET c == Head(chest.sailor[n].chores).ID
       IN chest' = [chest EXCEPT !.sailor[n].pc = "use",
                                 !.Chores[c].PID = Pid(c),
                                 !.Chores[c].Start = now]

\* run_chore(chore): update_sailor_ressource_use()
RunUse(n) ==
    /\ chest.sailor[n].pc = "use"
    /\ chest' = [set_sailor_use(chest, n) EXCEPT !.sailor[n].pc = "handle",
                                                 !.sailor[n].chores = Tail(@)]

\* cancel_chore(chore) of a chore with no PID or with no connected process
CancelUnconnected(n) ==
    /\ chest.sailor[n].pc = "handle"
    /\ chest.sailor[n].chores # <<>>
    /\ LET chore == Head(chest.sailor[n].chores)
       IN /\ get_chore_status(chore) = "CANCEL_REQUESTED"
          /\ chore.PID = None \/ chore.PID \notin chest.connected_processes[n]
          /\ chest' = [set_chore_canceled(chest, chore.ID) EXCEPT
                          !.sailor[n].chores = Tail(@)]

\* cancel_chore(chore) up to process.wait: the process group is signalled and
\* the process, if it had not exited, is killed by the signal; when it had
\* exited and been reaped, os.getpgid may raise and the chore is left as it is
CancelTerminate(n, raised) ==
    /\ chest.sailor[n].pc = "handle"
    /\ chest.sailor[n].chores # <<>>
    /\ LET chore == Head(chest.sailor[n].chores)
       IN /\ get_chore_status(chore) = "CANCEL_REQUESTED"
          /\ chore.PID \in chest.connected_processes[n]
          /\ raised => chest.procs[chore.PID].exited
          /\ chest' =
               IF raised THEN [chest EXCEPT !.sailor[n].chores = Tail(@)]
               ELSE IF chest.procs[chore.PID].exited
               THEN [chest EXCEPT !.sailor[n].pc = "terminated"]
               ELSE [chest EXCEPT !.sailor[n].pc = "terminated",
                                  !.procs[chore.PID] =
                                      [exited |-> TRUE, returncode |-> 0 - SIGTERM],
                                  !.killed = @ \cup {chore.ID}]

\* cancel_chore(chore) after the process is gone: set_chore_canceled(chore_id)
CancelRecord(n) ==
    /\ chest.sailor[n].pc = "terminated"
    /\ chest' = [set_chore_canceled(chest, Head(chest.sailor[n].chores).ID) EXCEPT
                    !.sailor[n].pc = "handle", !.sailor[n].chores = Tail(@)]

\* loop of the sailor, after handle_chores: update_sailor_ressource_use()
update_sailor_ressource_use(n) ==
    /\ chest.sailor[n].pc = "handle"
    /\ chest.sailor[n].chores = <<>>
    /\ chest' = [set_sailor_use(chest, n) EXCEPT !.sailor[n].pc = "sleep"]

\* the script of a chore ends by itself
ScriptEnds(pid, ret) ==
    /\ pid \in DOMAIN chest.procs
    /\ ~chest.procs[pid].exited
    /\ chest' = [chest EXCEPT !.procs[pid] = [exited |-> TRUE, returncode |-> ret]]

\* watch_process(chore_id, pid) once process.wait() has returned
watch_process(n, pid) ==
    /\ pid \in chest.watchers
    /\ pid \in chest.connected_processes[n]
    /\ chest.procs[pid].exited
    /\ LET c == pid - 100
           done == [chest EXCEPT !.watchers = @ \ {pid},
                                 !.connected_processes[n] = @ \ {pid}]
       IN chest' =
            IF chest.procs[pid].returncode = 0
            THEN [done EXCEPT !.Chores[c].Infos = "Completed successfully",
                              !.Chores[c].End = now, !.Chores[c].PID = pid]
            ELSE [done EXCEPT !.Chores[c].Infos = "Failed",
                              !.Chores[c].End = now, !.Chores[c].PID = None]

\* A Sailor, run as root or not, that receives launch requests of any payload
InitPolicy ==
    /\ now = StartTime
    /\ sub = 0
    /\ crew = Empty
    /\ chores = Empty
    /\ users = Empty
    /\ pass = [pc |-> "idle", crew |-> Empty, chores |-> Empty, todo |-> <<>>,
               cur |-> 0, sailor |-> Null, before |-> <<0, 0>>]
    /\ loop = IdleLoop
    /\ launched = {}
    /\ cancel_posted = Empty
    /\ cr_since = Empty
    /\ reissued = {}
    /\ last = [op |-> "none", branch |-> "none", arg |-> 0]
    /\ \E r \in BOOLEAN : ship = [IdleShip EXCEPT !.root = r]
    /\ desk = <<>>
    /\ chest = IdleChest
    /\ calls = 0

NextPolicy ==
    \/ \E c \in ShipChores, o \in PayloadOwners, wd \in PayloadDirs :
          Ship(LaunchArrivesWith(c, o, wd))
    \/ \E i \in DOMAIN ship.threads : Ship(LaunchCheck(i))
    \/ \E i \in DOMAIN ship.threads : Ship(LaunchPopen(i))
    \/ \E i \in DOMAIN ship.threads : Ship(LaunchTable(i))
    \/ \E i \in DOMAIN ship.threads : Ship(WatchBegin(i))
    \/ \E i \in DOMAIN ship.threads : Ship(WatchExit(i))
    \/ \E i \in DOMAIN ship.threads : Ship(WatchFinally(i))
    \/ \E pid \in DOMAIN ship.procs, ret \in ExitCodes : Ship(ProcExits(pid, ret))

SpecPolicy == InitPolicy /\ [][NextPolicy]_vars

-----------------------------------------------------------------------------
(* The system *)

\* The Captain starts on the crew.json an earlier `--prereg` left: every sailor is
\* preregistered and none has registered yet.
Init ==
    /\ now = StartTime
    /\ sub = 0
    /\ \E sv \in ServiceSets, mt \in Durations :
          crew = [n \in Sailors |-> PreregRecord(Empty, n, sv, mt)]
    /\ chores = Empty
    /\ users = Empty
    /\ pass = IdlePass
    /\ loop = IdleLoop
    /\ launched = {}
    /\ cancel_posted = Empty
    /\ cr_since = Empty
    /\ reissued = {}
    /\ last = [op |-> "none", branch |-> "none", arg |-> 0]
    /\ ship = IdleShip
    /\ desk = <<>>
    /\ chest = IdleChest
    /\ calls = 0

\* a request to the Captain's API
Api(A) == calls < MaxCalls /\ calls' = calls + 1 /\ A /\ UNCHANGED <<ship, desk, chest>>

\* a step of a thread of the Captain, of the clock or of a sailor
Internal(A) == A /\ UNCHANGED <<calls, last, ship, desk, chest>>

Next ==
    \/ Internal(Tick)
    \/ \E n \in Sailors, sv \in ServiceSets, mt \in Durations :
          Api(preregister_sailor(n, sv, mt))
    \/ \E n \in Sailors : Api(sailor_register(n, SailorCpus, SailorGpus))
    \/ \E n \in Sailors : Api(sailor_awake(n))
    \/ \E n \in Sailors, c \in launched, st \in ReportStatuses : Api(sailor_report(n, c, st))
    \/ \E u \in Owners, tl \in Durations, cl \in ChoresLimits : Api(user_upsert(u, tl, cl))
    \/ \E o \in Owners, rq \in Requests, sv \in ServiceRequests, ms \in 0..MaxSub :
          Api(user_chore(o, rq[1], rq[2], sv, ms))
    \/ \E c \in DOMAIN chores, r \in CancelReasons : Api(user_cancel(c, r))
    \/ Internal(SailorReceives)
    \/ Internal(PassDispatchOk)
    \/ Internal(PassDispatchFail)
    \/ Internal(LoopStart)
    \/ Internal(LoopPost)

Spec == Init /\ [][Next]_vars

\* the Sailor process on its own
SpecShip == Init /\ [][NextShip]_vars

-----------------------------------------------------------------------------
(* The reconciliation loop on stores drawn from bounded sets: the Captain has
   been running, the crew holds one registered sailor and the chores store holds
   up to LoopChores chores in the shapes the handlers write *)

LoopChores == 2                     \* chores in the store the loop starts on
LoopStarts == {1, 4}                \* when these chores were submitted
LoopOwners == {1000, 1001}
LoopShapes == {"pending", "assigned", "running", "cancel_requested", "done"}
LoopDurations == {<<>>,
                  <<"0", "0", ":", "0", "0", ":", "0", "5">>,
                  <<"0", "0", ":", "0", "0", ":", "0", "0">>,
                  <<"s", "o", "o", "n">>}

\* a chore submitted at t by owner o, as user_chore, try_assign_pending,
\* sailor_report and user_cancel leave it (each step in the second it was submitted)
ChoreAt(shape, t, o) ==
    LET p == [cpus |-> 1, gpus |-> 0, sailor |-> Null, owner |-> o,
              service |-> Null, status |-> "pending", start |-> t,
              reason |-> "no available sailor", assigned_at |-> 0, run_start |-> 0,
              cancel_requested_at |-> 0, cancel_source |-> Null, end |-> 0,
              exit_code |-> <<>>]
        a == [p EXCEPT !.sailor = SailorNames[1], !.status = "assigned",
                       !.assigned_at = t, !.reason = Null]
        r == [a EXCEPT !.status = "running", !.run_start = t]
    IN CASE shape = "pending" -> p
         [] shape = "assigned" -> a
         [] shape = "running" -> r
         [] shape = "cancel_requested" ->
                [r EXCEPT !.status = "cancel_requested", !.reason = "canceled by user",
                          !.cancel_requested_at = t, !.cancel_source = "user"]
         [] shape = "done" ->
                [r EXCEPT !.status = "done", !.end = t, !.exit_code = <<0>>]

\* the stores hold up to max chores of the given shapes and owners, and max_time
\* and time_limit are drawn from durs
LoopStores(max, shapes, owners, durs) ==
    /\ now = StartTime
    /\ sub = 0
    /\ \E K \in SUBSET (1..max) :
         \E f \in [K -> shapes \X LoopStarts \X owners] :
            chores = [c \in {f[k][2] * 1000 + k : k \in K} |->
                         ChoreAt(f[c % 1000][1], f[c % 1000][2], f[c % 1000][3])]
    /\ \E mt \in durs :
          LET used == Cardinality({c \in DOMAIN chores :
                                     chores[c].status \in {"assigned", "running",
                                                           "cancel_requested"}})
              s == [services |-> {"gpu"}, status |-> "idle", last_seen |-> StartTime,
                    cpus |-> LoopChores, gpus |-> 0, used_cpus |-> used, used_gpus |-> 0,
                    max_time |-> mt]
          IN crew = [n \in Sailors |-> [s EXCEPT !.status = IdleOrBusy(s)]]
    /\ \/ users = Empty
       \/ \E tl \in durs :
             users = (1000 :> [time_limit |-> tl, chores_limit |-> 0])
    /\ pass = IdlePass
    /\ loop = IdleLoop
    /\ launched = {c \in DOMAIN chores :
                      chores[c].status \in {"running", "cancel_requested", "done"}}
    /\ cancel_posted = [c \in {d \in DOMAIN chores : chores[d].status = "cancel_requested"}
                          |-> TRUE]
    /\ cr_since = [c \in DOMAIN chores |->
                      IF chores[c].status = "cancel_requested"
                      THEN chores[c].cancel_requested_at ELSE 0]
    /\ reissued = {}
    /\ last = [op |-> "none", branch |-> "none", arg |-> 0]
    /\ ship = IdleShip
    /\ desk = <<>>
    /\ chest = IdleChest
    /\ calls = 0

InitLoop == LoopStores(LoopChores, LoopShapes, LoopOwners, LoopDurations)

NextLoop ==
    \/ Internal(Tick)
    \/ Internal(LoopStart)
    \/ Internal(LoopPost)

SpecLoop == InitLoop /\ [][NextLoop]_vars

-----------------------------------------------------------------------------
(* The reconciliation loop on such stores while requests arrive: users submit
   chores that ask for a whole sailor, which stay pending since the sailor of
   these stores has no gpu, and cancel chores *)

BusyCalls == 2                      \* requests the Captain's API receives in a run

NextBusy ==
    \/ Internal(Tick)
    \/ Internal(LoopStart)
    \/ Internal(LoopPost)
    \/ \E o \in Owners, ms \in 0..MaxSub :
          calls < BusyCalls /\ Api(Submit(o, SailorCpus, SailorGpus, Null, ms, LoopChores))
    \/ \E c \in DOMAIN chores, r \in CancelReasons :
          calls < BusyCalls /\ Api(user_cancel(c, r))

InitBusy == LoopStores(LoopChores - 1, {"running", "cancel_requested", "done"}, Owners, Durations)

SpecBusy == InitBusy /\ [][NextBusy]_vars

-----------------------------------------------------------------------------
(* The reconciliation loop on stores of one owner's active chores, with a
   time_limit that the older chore alone exceeds at the first clock reading
   and one it just meets *)

BudgetShapes == {"pending", "assigned", "running"}
BudgetDurations == {<<"0", "0", ":", "0", "0", ":", "0", "3">>,
                    <<"0", "0", ":", "0", "0", ":", "0", "5">>}

InitBudget == LoopStores(LoopChores, BudgetShapes, Owners, BudgetDurations)

SpecBudget == InitBudget /\ [][NextLoop]_vars

-----------------------------------------------------------------------------
(* The Captain with two sailors up, of drawn capacities, on a chores.json that
   holds chores submitted while no sailor was up; users submit further chores *)

PairChores == 2                     \* pending chores in the store the Captain starts on
PairStart == 1                      \* when these chores were submitted
PairCalls == 2                      \* requests the Captain's API receives in a run
PairNames == {CrewOrder[i] : i \in 1..Len(CrewOrder)}
PairCapacities == {<<2, 0>>, <<1, 1>>, <<2, 1>>}
PairRequests == {<<1, 0>>, <<2, 1>>}

InitPair ==
    /\ now = StartTime
    /\ sub = 0
    /\ \E cap \in [PairNames -> PairCapacities] :
          crew = [n \in PairNames |->
                    [services |-> {"gpu"}, status |-> "idle", last_seen |-> StartTime,
                     cpus |-> cap[n][1], gpus |-> cap[n][2],
                     used_cpus |-> 0, used_gpus |-> 0, max_time |-> <<>>]]
    /\ \E K \in SUBSET (1..PairChores) :
         \E f \in [K -> PairRequests] :
            chores = [c \in {PairStart * 1000 + k : k \in K} |->
                         [ChoreAt("pending", PairStart, 1000)
                             EXCEPT !.cpus = f[c % 1000][1],
                                    !.gpus = f[c % 1000][2]]]
    /\ users = Empty
    /\ pass = IdlePass
    /\ loop = IdleLoop
    /\ launched = {}
    /\ cancel_posted = Empty
    /\ cr_since = [c \in DOMAIN chores |-> 0]
    /\ reissued = {}
    /\ last = [op |-> "none", branch |-> "none", arg |-> 0]
    /\ ship = IdleShip
    /\ desk = <<>>
    /\ chest = IdleChest
    /\ calls = 0

NextPair ==
    \/ Internal(Tick)
    \/ \E o \in Owners, rq \in PairRequests, ms \in 0..MaxSub :
          calls < PairCalls /\ Api(Submit(o, rq[1], rq[2], Null, ms, PairChores + PairCalls))
    \/ Internal(SailorReceives)
    \/ Internal(PassDispatchOk)

SpecPair == InitPair /\ [][NextPair]_vars

-----------------------------------------------------------------------------
(* The Captain on stores of chores its sailor was asked to launch, some of them
   reported Running already, while the sailor's reports arrive *)

ReportShapes == {"assigned", "running", "cancel_requested"}

InitReport ==
    /\ now = StartTime
    /\ sub = 0
    /\ \E K \in SUBSET (1..LoopChores) :
         \E f \in [K -> ReportShapes \X LoopStarts] :
            chores = [c \in {f[k][2] * 1000 + k : k \in K} |->
                         ChoreAt(f[c % 1000][1], f[c % 1000][2], 1000)]
    /\ LET s == [services |-> {"gpu"}, status |-> "idle", last_seen |-> StartTime,
                 cpus |-> LoopChores, gpus |-> 0,
                 used_cpus |-> Cardinality(DOMAIN chores), used_gpus |-> 0,
                 max_time |-> <<>>]
       IN crew = [n \in Sailors |-> [s EXCEPT !.status = IdleOrBusy(s)]]
    /\ users = Empty
    /\ pass = IdlePass
    /\ loop = IdleLoop
    /\ launched = DOMAIN chores
    /\ cancel_posted = [c \in {d \in DOMAIN chores : chores[d].status = "cancel_requested"}
                          |-> TRUE]
    /\ cr_since = [c \in DOMAIN chores |->
                      IF chores[c].status = "cancel_requested"
                      THEN chores[c].cancel_requested_at ELSE 0]
    /\ reissued = {}
    /\ last = [op |-> "none", branch |-> "none", arg |-> 0]
    /\ ship = IdleShip
    /\ desk = <<>>
    /\ chest = IdleChest
    /\ calls = 0

NextReport ==
    \/ Internal(Tick)
    \/ \E n \in Sailors, c \in launched, st \in ReportStatuses : Api(sailor_report(n, c, st))

SpecReport == InitReport /\ [][NextReport]_vars

-----------------------------------------------------------------------------
(* The loop over one running chore whose owner's time_limit, or whose sailor's
   max_time, is any string of up to four colon-separated fields with or
   without a day part *)

ParseFields == 4
DurationTokens == {<<>>, <<"0">>, <<"2">>, <<"x">>}
DurationDays == {<<>>, <<"-">>, <<"1", "-">>}

RECURSIVE Joined(_)
\* ":".join(fields)
Joined(fields) ==
    IF Len(fields) = 1 THEN fields[1]
    ELSE fields[1] \o <<":">> \o Joined(Tail(fields))

DurationStrings ==
    {d \o Joined(f) : d \in DurationDays,
                      f \in UNION {[1..n -> DurationTokens] : n \in 1..ParseFields}}

InitParse ==
    /\ now = StartTime
    /\ sub = 0
    /\ chores = (1001 :> ChoreAt("running", 1, 1000))
    /\ \E s \in DurationStrings, mine \in BOOLEAN :
          /\ crew = [n \in Sailors |->
                       [services |-> {"gpu"}, status |-> "busy", last_seen |-> StartTime,
                        cpus |-> LoopChores, gpus |-> 0, used_cpus |-> 1, used_gpus |-> 0,
                        max_time |-> IF mine THEN <<>> ELSE s]]
          /\ users = (1000 :> [time_limit |-> IF mine THEN s ELSE <<>>,
                               chores_limit |-> 0])
    /\ pass = IdlePass
    /\ loop = IdleLoop
    /\ launched = {1001}
    /\ cancel_posted = Empty
    /\ cr_since = (1001 :> 0)
    /\ reissued = {}
    /\ last = [op |-> "none", branch |-> "none", arg |-> 0]
    /\ ship = IdleShip
    /\ desk = <<>>
    /\ chest = IdleChest
    /\ calls = 0

SpecParse == InitParse /\ [][NextLoop]_vars

-----------------------------------------------------------------------------
(* The reconciliation loop on stores where a chore may have been submitted with
   an owner that is not a number *)

FaultShapes == {"pending", "cancel_requested", "done"}
FaultOwners == Owners \cup {NonNumericOwner}

InitFault == LoopStores(LoopChores, FaultShapes, FaultOwners, {<<>>})

NextFault ==
    \/ Internal(Tick)
    \/ Internal(LoopStart)
    \/ Internal(LoopFails)
    \/ Internal(LoopPost)

SpecFault == InitFault /\ [][NextFault]_vars

-----------------------------------------------------------------------------
(* The Captain with room for FleetChores chores, started on a users.json an
   earlier run left; sailors that were never preregistered call in too, and
   submissions ask for a whole sailor or for one cpu of it *)

FleetChores == 2                    \* chore records held by the chores store at once
FleetNames == Sailors \cup {"ghost"}
FleetLimits == {1, 2}
\* the (cpus, gpus, service) a submission asks for
FleetRequests == {<<SailorCpus, SailorGpus, Null>>, <<1, 0, Null>>}
FleetReports == {"Running", "Done", "Failed"}

InitFleet ==
    /\ now = StartTime
    /\ sub = 0
    /\ \E sv \in ServiceSets : crew = [n \in Sailors |-> PreregRecord(Empty, n, sv, <<>>)]
    /\ chores = Empty
    /\ \/ users = Empty
       \/ \E cl \in FleetLimits :
             users = [u \in Owners |-> [time_limit |-> <<>>, chores_limit |-> cl]]
    /\ pass = IdlePass
    /\ loop = IdleLoop
    /\ launched = {}
    /\ cancel_posted = Empty
    /\ cr_since = Empty
    /\ reissued = {}
    /\ last = [op |-> "none", branch |-> "none", arg |-> 0]
    /\ ship = IdleShip
    /\ desk = <<>>
    /\ chest = IdleChest
    /\ calls = 0

NextFleet ==
    \/ Internal(Tick)
    \/ \E n \in Sailors, sv \in ServiceSets : Api(preregister_sailor(n, sv, <<>>))
    \/ \E n \in FleetNames : Api(sailor_register(n, SailorCpus, SailorGpus))
    \/ \E n \in FleetNames : Api(sailor_awake(n))
    \/ \E n \in Sailors, c \in launched, st \in FleetReports : Api(sailor_report(n, c, st))
    \/ \E o \in Owners, rq \in FleetRequests, ms \in 0..MaxSub :
          Api(Submit(o, rq[1], rq[2], rq[3], ms, FleetChores))
    \/ \E c \in DOMAIN chores, r \in CancelReasons : Api(user_cancel(c, r))
    \/ Internal(SailorReceives)
    \/ Internal(PassDispatchOk)
    \/ Internal(PassDispatchFail)
    \/ Internal(LoopStart)
    \/ Internal(LoopPost)

SpecFleet == InitFleet /\ [][NextFleet]_vars

-----------------------------------------------------------------------------
(* user_chore on worker threads: the handler tests the owner's chores_limit on
   one load of chores.json and adds its chore to a later load; nothing is
   locked, and other submissions run between the two *)

DeskCalls == 3                      \* submissions the Captain's API receives in a run

RemoveAt(q, i) == [k \in 1..(Len(q) - 1) |-> IF k < i THEN q[k] ELSE q[k + 1]]

\* user_chore up to its limit test: 403, or on to the creation of the chore
DeskCheck(owner, cpus, gpus, service) ==
    /\ calls < DeskCalls
    /\ calls' = calls + 1
    /\ IF LimitReached(UserChoresLimit(users, owner), ActiveCount(owner))
       THEN /\ last' = [op |-> "user_chore", branch |-> "403", arg |-> owner]
            /\ UNCHANGED desk
       ELSE /\ desk' = Append(desk, [owner |-> owner, cpus |-> cpus, gpus |-> gpus,
                                     service |-> service])
            /\ UNCHANGED last
    /\ UNCHANGED <<now, sub, crew, chores, users, pass, loop, launched, cancel_posted,
                   cr_since, reissued, ship, chest>>

\* user_chore from the chore id on: load_chores, add, save_chores, try_assign_pending
DeskWrite(i, ms) ==
    /\ i \in DOMAIN desk
    /\ ms \in {sub, sub + 1}
    /\ ms <= DeskCalls
    /\ LET t == desk[i]
           chores2 == (NewChoreId(ms) :>
                          NewChore(IF t.cpus = 0 THEN 1 ELSE t.cpus, t.gpus, t.owner, t.service))
                      @@ chores
       IN CallPass(crew, chores2)
    /\ last' = [op |-> "user_chore", branch |-> "ok", arg |-> NewChoreId(ms)]
    /\ sub' = ms
    /\ reissued' = IF NewChoreId(ms) \in DOMAIN chores
                   THEN reissued \cup {NewChoreId(ms)} ELSE reissued
    /\ desk' = RemoveAt(desk, i)
    /\ UNCHANGED <<now, users, loop, launched, cancel_posted, ship, chest, calls>>

NextDesk ==
    \/ Internal(Tick)
    \/ \E o \in Owners, rq \in FleetRequests : DeskCheck(o, rq[1], rq[2], rq[3])
    \/ \E i \in DOMAIN desk, ms \in 0..DeskCalls : DeskWrite(i, ms)

SpecDesk == InitFleet /\ [][NextDesk]_vars

-----------------------------------------------------------------------------
(* The relational variant at work: the captain adds and cancels chores while
   the lieutenant, the sailor and its watchers run *)

ChestRequests == {<<1, 0>>, <<SailorCpus, SailorGpus>>}

Chest(A) ==
    A /\ UNCHANGED <<now, sub, crew, chores, users, pass, loop, launched, cancel_posted,
                     cr_since, reissued, last, ship, desk, calls>>

Command(A) ==
    /\ calls < ChestCalls
    /\ calls' = calls + 1
    /\ A
    /\ UNCHANGED <<now, sub, crew, chores, users, pass, loop, launched, cancel_posted,
                   cr_since, reissued, last, ship, desk>>

NextChest ==
    \/ \E rq \in ChestRequests : Command(add_chore(rq[1], rq[2]))
    \/ \E c \in DOMAIN chest.Chores : Command(captain_cancel_chore(c))
    \/ Chest(LieutenantSailors)
    \/ Chest(LieutenantChores)
    \/ \E n \in Sailors \cup {Null} : Chest(assign_chore(n))
    \/ Chest(LieutenantSleeps)
    \/ \E n \in Sailors : Chest(set_sailor_ressource_infos(n))
    \/ \E n \in Sailors : Chest(get_chores_by_sailor_name(n))
    \/ \E n \in Sailors : Chest(HandleOther(n))
    \/ \E n \in Sailors : Chest(create_process(n))
    \/ \E n \in Sailors : Chest(set_chore_pid(n))
    \/ \E n \in Sailors : Chest(RunUse(n))
    \/ \E n \in Sailors : Chest(CancelUnconnected(n))
    \/ \E n \in Sailors, raised \in BOOLEAN : Chest(CancelTerminate(n, raised))
    \/ \E n \in Sailors : Chest(CancelRecord(n))
    \/ \E n \in Sailors : Chest(update_sailor_ressource_use(n))
    \/ \E pid \in DOMAIN chest.procs, ret \in ExitCodes : Chest(ScriptEnds(pid, ret))
    \/ \E n \in Sailors, pid \in chest.watchers : Chest(watch_process(n, pid))

SpecChest == Init /\ [][NextChest]_vars


-----------------------------------------------------------------------------
(* The claims *)

Terminal == {"done", "failed", "canceled"}
TerminalReports == {"Done", "Failed", "Canceled"}
Reserving == {"assigned", "running", "cancel_requested"}

\* a chore that asks for at least one cpu and no negative number of gpus
Regular(chore) == NeedCpus(chore) >= 1 /\ NeedGpus(chore) >= 0

\* The claims below, C1 apart, are stated for the runs they are about: every
\* stored chore is regular and no chore_id was issued twice.
Plain == reissued = {} /\ \A c \in DOMAIN chores : Regular(chores[c])

RECURSIVE SumOver(_, _, _)
\* the sum of f[c] over the chores c of S
SumOver(S, f, acc) ==
    IF S = {} THEN acc
    ELSE LET c == CHOOSE x \in S : TRUE
         IN SumOver(S \ {c}, f, acc + f[c])

\* the chores that hold a reservation on sailor n
ReservingOn(n) == {c \in DOMAIN chores : chores[c].sailor = n /\ chores[c].status \in Reserving}

\* C1. Capacity bound: every sailor record of the crew store has
\* 0 <= used_cpus <= cpus and 0 <= used_gpus <= |gpus|.
C1_CapacityBound ==
    \A n \in DOMAIN crew :
        /\ 0 <= crew[n].used_cpus /\ crew[n].used_cpus <= crew[n].cpus
        /\ 0 <= crew[n].used_gpus /\ crew[n].used_gpus <= crew[n].gpus

\* C2. Accounting closure: while no assignment pass is between its reserve and
\* the outcome of its dispatch, the cpus (gpus) requested by the assigned, running
\* and cancel_requested chores of a sailor add up to its used_cpus (used_gpus).
C2_AccountingClosure ==
    (Plain /\ pass.pc = "idle") =>
        \A n \in DOMAIN crew :
            /\ SumOver(ReservingOn(n), [c \in DOMAIN chores |-> NeedCpus(chores[c])], 0)
                  = crew[n].used_cpus
            /\ SumOver(ReservingOn(n), [c \in DOMAIN chores |-> NeedGpus(chores[c])], 0)
                  = crew[n].used_gpus

\* C3. Single terminal: a chore whose status is done, failed or canceled keeps
\* that status through every report, cancel, assignment pass and loop step, as
\* long as the chores store holds it.
C3_SingleTerminal ==
    [][\A c \in DOMAIN chores :
          (Plain' /\ chores[c].status \in Terminal /\ c \in DOMAIN chores')
              => chores'[c].status = chores[c].status]_vars

\* C4. In every state, a stored chore has `end` set exactly when its status is
\* done, failed or canceled.
C4_EndIffTerminal ==
    Plain => \A c \in DOMAIN chores : (chores[c].end # 0) <=> (chores[c].status \in Terminal)

\* C5. Report idempotence: once a terminal report has been processed for a chore
\* (it stamped the chore's exit_code), a further terminal report for that chore
\* leaves the chores store and the crew store as they are.
C5_ReportIdempotent ==
    [][\A n \in Sailors, c \in DOMAIN chores, st \in TerminalReports :
          (Plain /\ chores[c].status \in Terminal /\ chores[c].exit_code # <<>>
           /\ sailor_report(n, c, st))
              => UNCHANGED <<chores, crew>>]_vars

\* a pending chore that a sailor of the crew store could take now
PendingEligible(c) ==
    /\ chores[c].status = "pending"
    /\ chores[c].sailor = Null
    /\ Best(crew, chores[c]) # Null

\* a step that ends an iteration of the reconciliation loop
LoopIterationEnds == (LoopStart \/ LoopPost) /\ loop'.pc = "idle"

\* C6. Scheduling liveness, as the steps that carry it: a heartbeat and every
\* iteration of the reconciliation loop trigger an assignment pass, so when either
\* is over no chore is left pending beside a sailor that can take it, unless a
\* pass is dispatching.
C6_PassOnAwakeAndLoop ==
    [][(Plain /\ ((\E n \in Sailors : sailor_awake(n)) \/ LoopIterationEnds))
          => \/ pass'.pc = "dispatch"
             \/ \A c \in DOMAIN chores' : ~PendingEligible(c)']_vars

\* C7. Cancel finalization: an iteration of the reconciliation loop that starts
\* CANCEL_REQUESTED_TTL or more after a chore entered cancel_requested does not
\* end with that chore still in cancel_requested.
C7_CancelFinalized ==
    [][(Plain /\ LoopIterationEnds)
          => \A c \in DOMAIN chores' :
                chores'[c].status = "cancel_requested"
                   => (IF loop.pc = "idle" THEN now ELSE loop.now) - cr_since'[c]
                         < CAPTAIN_CANCEL_REQUESTED_TTL]_vars

CancelReasonStrings == {"exceeded time limit", "exceeded user time limit",
                        "canceled by user", "canceled by timeout"}

\* C8. Cancel ordering: cancel_requested is stored before the cancel POST is
\* issued, so the Canceled report of a process that a cancel POST has flagged
\* reads a chore that carries the cancel source and its reason.
C8_ReportReadsCancelReason ==
    [][\A n \in Sailors, c \in DOMAIN chores :
          (Plain /\ c \in DOMAIN cancel_posted /\ cancel_posted[c]
           /\ sailor_report(n, c, "Canceled"))
              => /\ chores[c].cancel_source # Null
                 /\ chores[c].reason \in CancelReasonStrings]_vars

\* C9. Status/assignment consistency: a pending chore has no sailor, and an
\* assigned, running or cancel_requested chore has one.
C9_StatusAssignment ==
    Plain => \A c \in DOMAIN chores :
                /\ chores[c].status = "pending" => chores[c].sailor = Null
                /\ chores[c].status \in Reserving => chores[c].sailor # Null

\* C10. Reason preserved: the reason a chore carries in cancel_requested is the
\* one mapped from its cancel_source, no later cancel source replaces it while the
\* chore stays in cancel_requested, and the chore turns terminal with it.
C10_ReasonPreserved ==
    [][\A c \in DOMAIN chores :
          (Plain' /\ chores[c].status = "cancel_requested" /\ c \in DOMAIN chores'
           /\ chores'[c].status \in Terminal \cup {"cancel_requested"})
              => /\ chores'[c].reason = chores[c].reason
                 /\ chores'[c].reason = ReasonOf(chores'[c].cancel_source, "canceled by timeout")]_vars

-----------------------------------------------------------------------------
(* C11 *)

\* the owner's chores the budget step counts a duration for
Timed(lch, o) ==
    {c \in DOMAIN lch : /\ lch[c].owner = o
                        /\ lch[c].status \notin TERMINAL_STATUSES \cup {"pending"}}

RECURSIVE SumDur(_, _, _)
\* the sum of t - T0 over the chores of S
SumDur(S, lch, t) ==
    IF S = {} THEN 0
    ELSE LET c == CHOOSE x \in S : TRUE
         IN (t - T0(lch[c], 0)) + SumDur(S \ {c}, lch, t)

\* the chores of the longest oldest-first prefix of the owner's timed chores whose
\* durations sum to at most the owner's limit
Protected(lch, lus, o, t) ==
    {c \in Timed(lch, o) :
        SumDur({d \in Timed(lch, o) : T0(lch[d], 0) <= T0(lch[c], 0)}, lch, t)
            <= _parse_max_time(UserTimeLimit(lus, o))}

\* C11: in an iteration of the loop, a chore of an owner with a positive
\* time_limit that lies in the longest oldest-first prefix of the owner's
\* non-pending, non-terminal chores whose durations sum to at most the limit is
\* not marked cancel_requested by the time-budget step
C11_BudgetFairness ==
    [][LoopStart =>
          \A c \in DOMAIN chores :
             (/\ _parse_max_time(UserTimeLimit(users, chores[c].owner)) > 0
              /\ c \in Protected(chores, users, chores[c].owner, now))
             => /\ c \notin BudgetCancel(chores, users, now)
                /\ c \in DOMAIN chores'
                   => (chores'[c].cancel_source = "user_time_limit"
                          => chores[c].cancel_source = "user_time_limit")]_vars

\* the budget step has just marked a chore of an owner and left an older one,
\* whose duration fits the limit, as it was
C11_Witness ==
    \E c, d \in DOMAIN chores :
       /\ chores[c].owner = chores[d].owner
       /\ _parse_max_time(UserTimeLimit(users, chores[c].owner)) > 0
       /\ chores[d].cancel_source = "user_time_limit"
       /\ chores[d].cancel_requested_at = now
       /\ chores[c].status \in {"assigned", "running"}
       /\ T0(chores[c], 0) < T0(chores[d], 0)
       /\ now - T0(chores[c], 0) <= _parse_max_time(UserTimeLimit(users, chores[c].owner))

-----------------------------------------------------------------------------
(* C12 *)

\* the owner's chores that count against chores_limit
CountedActive(o) ==
    {c \in DOMAIN chores :
        /\ chores[c].owner = o
        /\ chores[c].status \in {"pending", "assigned", "running", "cancel_requested"}
        /\ ~(/\ chores[c].status = "cancel_requested"
             /\ now - chores[c].cancel_requested_at >= CAPTAIN_CANCEL_REQUESTED_TTL)}

\* C12: a submission by an owner with chores_limit n > 0 who holds at least n
\* active chores (cancel_requested ones older than the TTL not counted) fails
\* with 403 and leaves the chores, crew and users stores unchanged; with fewer
\* than n it is accepted and its chore is stored
C12_ChoresLimit ==
    [][\A o \in Owners, rq \in FleetRequests, ms \in 0..MaxSub :
          (/\ Submit(o, rq[1], rq[2], rq[3], ms, FleetChores)
           /\ UserChoresLimit(users, o) > 0)
          => IF Cardinality(CountedActive(o)) >= UserChoresLimit(users, o)
             THEN /\ last'.branch = "403"
                  /\ UNCHANGED <<chores, crew, users>>
             ELSE /\ last'.branch = "ok"
                  /\ last'.arg \in DOMAIN chores'
                  /\ chores'[last'.arg].owner = o]_vars

\* a submission has just been refused while the owner holds as many active
\* chores as the limit allows
C12_Witness ==
    /\ last.op = "user_chore"
    /\ last.branch = "403"
    /\ Cardinality(CountedActive(last.arg)) = UserChoresLimit(users, last.arg)

\* a submission has just been accepted although the owner holds a chore whose
\* cancel was requested a TTL ago, under a limit of one
C12_WitnessAged ==
    /\ last.op = "user_chore"
    /\ last.branch = "ok"
    /\ last.arg \in DOMAIN chores
    /\ UserChoresLimit(users, chores[last.arg].owner) = 1
    /\ \E c \in DOMAIN chores \ {last.arg} :
          /\ chores[c].owner = chores[last.arg].owner
          /\ chores[c].status = "cancel_requested"
          /\ chores[last.arg].start - chores[c].cancel_requested_at
                >= CAPTAIN_CANCEL_REQUESTED_TTL

-----------------------------------------------------------------------------
(* C13 *)

\* the chores the pass assigns in this step
AssignedInStep ==
    {d \in DOMAIN chores' :
        /\ chores'[d].status = "assigned"
        /\ d \in DOMAIN pass.chores
        /\ pass.chores[d].status = "pending"}

\* C13: when the launch POST of a chore fails and the pass has finished handling
\* that chore (it reserves nothing further in the step), the chore is pending with
\* no sailor and reason "sailor unreachable", and the sailor's used counters are
\* what they were before the reserve; so too when the sailor reported the chore
\* Failed while the launch call was in progress
C13_Rollback ==
    [][(PassDispatchFail /\ AssignedInStep = {})
          => /\ pass.cur \in DOMAIN chores'
             /\ chores'[pass.cur].status = "pending"
             /\ chores'[pass.cur].sailor = Null
             /\ chores'[pass.cur].reason = "sailor unreachable"
             /\ pass.sailor \in DOMAIN crew'
             /\ crew'[pass.sailor].used_cpus = pass.before[1]
             /\ crew'[pass.sailor].used_gpus = pass.before[2]]_vars

\* the launch POST of a chore has failed after the sailor reported it Failed:
\* the chore is pending again and the pass is over
C13_Witness ==
    /\ last.op = "sailor_report"
    /\ last.branch = "failed"
    /\ last.arg \in DOMAIN chores
    /\ chores[last.arg].status = "pending"
    /\ chores[last.arg].sailor = Null
    /\ chores[last.arg].reason = "sailor unreachable"
    /\ pass.pc = "idle"
    /\ \A n \in DOMAIN crew : crew[n].used_cpus = 0 /\ crew[n].used_gpus = 0

-----------------------------------------------------------------------------
(* C14 *)

\* the sailor record s is up, advertises the chore's service and has the free
\* cpus and gpus the chore asks for
Eligible(s, chore) ==
    /\ now - s.last_seen <= ALIVE_THRESHOLD
    /\ s.status # "down"
    /\ chore.service # Null => chore.service \in s.services
    /\ s.cpus - s.used_cpus >= NeedCpus(chore)
    /\ s.gpus - s.used_gpus >= NeedGpus(chore)

\* C14: whenever a pass sets a chore to assigned on sailor S, S's record in the
\* crew store is at that moment seen within ALIVE_THRESHOLD, not down, advertises
\* the chore's service and has the free cpus and gpus the chore asks for (stated
\* for the assignments a pass makes when its launch POST has returned: the crew
\* store is then as the step finds it)
C14_AssignmentEligibility ==
    [][(PassDispatchOk /\ Plain)
          => \A d \in AssignedInStep :
                /\ chores'[d].sailor \in DOMAIN crew
                /\ Eligible(crew[chores'[d].sailor], pass.chores[d])]_vars

-----------------------------------------------------------------------------
(* C15 *)

\* C15: sailor_register and sailor_awake for a name with no record in the crew
\* store fail with 403 and leave the crew and chores stores unchanged; neither
\* ever adds a record to the crew store
C15_PreregRequired ==
    [][\A n \in FleetNames :
          (sailor_register(n, SailorCpus, SailorGpus) \/ sailor_awake(n))
          => /\ n \notin DOMAIN crew
                => /\ last'.branch = "403"
                   /\ UNCHANGED <<crew, chores>>
             /\ DOMAIN crew' = DOMAIN crew]_vars

\* a sailor that was never preregistered has just been refused
C15_Witness ==
    /\ last.op \in {"sailor_register", "sailor_awake"}
    /\ last.branch = "403"
    /\ last.arg \notin DOMAIN crew

-----------------------------------------------------------------------------
(* C16 *)

\* chore d fits on sailor record s once the reservation of chore c is released
FitsAfterRelease(s, c, d) ==
    /\ now - s.last_seen <= ALIVE_THRESHOLD
    /\ d.service # Null => d.service \in s.services
    /\ s.cpus - Max(0, s.used_cpus - NeedCpus(c)) >= NeedCpus(d)
    /\ s.gpus - Max(0, s.used_gpus - NeedGpus(c)) >= NeedGpus(d)

\* the chores that are pending before the step and assigned after it
PlacedInStep ==
    {d \in DOMAIN chores \cap DOMAIN chores' :
        chores[d].status = "pending" /\ chores'[d].status = "assigned"}

\* C16: on a Done, Failed or Canceled report for a known chore the reporting
\* sailor's used counters are decremented by the chore's amounts, clamped at 0,
\* and stored before the pass of that report loads the crew store: if the pass
\* places nothing the store holds the decremented counters, and a pending chore
\* that fits on the released capacity is placed by that pass
C16_ReleaseVisible ==
    [][\A n \in Sailors, c \in DOMAIN chores, st \in {"Done", "Failed", "Canceled"} :
          (sailor_report(n, c, st) /\ n \in DOMAIN crew)
          => /\ PlacedInStep = {}
                => /\ crew'[n].used_cpus = Max(0, crew[n].used_cpus - NeedCpus(chores[c]))
                   /\ crew'[n].used_gpus = Max(0, crew[n].used_gpus - NeedGpus(chores[c]))
             /\ (\E d \in DOMAIN chores \ {c} :
                    /\ chores[d].status = "pending"
                    /\ chores[d].sailor = Null
                    /\ FitsAfterRelease(crew[n], chores[c], chores[d]))
                => PlacedInStep # {}]_vars

\* a terminal report has just released a sailor and its pass has placed, and is
\* launching, a chore that did not fit beside the reported one
C16_Witness ==
    /\ Plain
    /\ last.op = "sailor_report"
    /\ last.branch \in Terminal
    /\ last.arg \in DOMAIN chores
    /\ chores[last.arg].status \in Terminal
    /\ pass.pc = "dispatch"
    /\ pass.cur \in DOMAIN chores \ {last.arg}
    /\ chores[pass.cur].status = "assigned"
    /\ chores[pass.cur].sailor = chores[last.arg].sailor
    /\ chores[pass.cur].assigned_at = chores[last.arg].end
    /\ NeedCpus(chores[pass.cur]) + NeedCpus(chores[last.arg]) > crew[pass.sailor].cpus

-----------------------------------------------------------------------------
(* C17 *)

\* C17: a sailor_report whose chore_id is not in the chores store is answered
\* OK (its pass is not run, no counter is decremented) and leaves the chores
\* store and the crew store unchanged
C17_UnknownChoreReport ==
    [][\A n \in Sailors, c \in launched, st \in ReportStatuses :
          (sailor_report(n, c, st) /\ c \notin DOMAIN chores)
          => /\ last'.branch = "unknown"
             /\ UNCHANGED <<chores, crew, pass>>]_vars

\* a sailor has just reported a chore the loop had purged, after its last
\* heartbeat
C17_Witness ==
    /\ last.op = "sailor_report"
    /\ last.branch = "unknown"
    /\ last.arg \in launched \ DOMAIN chores
    /\ \E n \in DOMAIN crew : crew[n].last_seen # 0 /\ crew[n].last_seen < now

-----------------------------------------------------------------------------
(* C18 *)

\* the assigned or running chores of store chs whose sailor, in crew cr, has a
\* positive max_time that their elapsed time at t exceeds
Overdue(chs, cr, t) ==
    {c \in DOMAIN chs :
        /\ chs[c].status \in {"assigned", "running"}
        /\ chs[c].sailor \in DOMAIN cr
        /\ _parse_max_time(cr[chs[c].sailor].max_time) > 0
        /\ t - T0(chs[c], 0) > _parse_max_time(cr[chs[c].sailor].max_time)}

MarkedMaxTime(chore) ==
    /\ chore.status = "cancel_requested"
    /\ chore.cancel_source = "sailor_max_time"
    /\ chore.reason = "exceeded time limit"

\* C18: when an iteration of the loop ends, every chore that was assigned or
\* running when it began, on a sailor with max_time > 0 that the chore's elapsed
\* time exceeded, is cancel_requested with cancel_source sailor_max_time and
\* reason "exceeded time limit"; and no step of the loop gives cancel_source
\* sailor_max_time to a chore whose sailor has a missing, zero or unparseable
\* max_time
C18_MaxTimeEnforced ==
    [][/\ (LoopStart /\ loop'.pc = "idle") => Overdue(chores, crew, now) = {}
       /\ (LoopPost /\ loop'.pc = "idle")
             => \A c \in Overdue(loop.loaded, loop.crew, loop.now) :
                   c \in DOMAIN chores' /\ MarkedMaxTime(chores'[c])
       /\ (LoopStart \/ LoopPost)
             => \A c \in DOMAIN chores \cap DOMAIN chores' :
                   (/\ chores'[c].cancel_source = "sailor_max_time"
                    /\ chores[c].cancel_source # "sailor_max_time")
                   => /\ chores[c].sailor \in DOMAIN crew
                      /\ crew[chores[c].sailor].max_time \notin
                            {<<>>, <<"0", "0", ":", "0", "0", ":", "0", "0">>,
                             <<"s", "o", "o", "n">>}]_vars

\* an iteration has ended with two chores marked by the max_time step at its
\* clock reading
C18_Witness ==
    /\ loop.pc = "idle"
    /\ \E c, d \in DOMAIN chores :
          /\ c # d
          /\ MarkedMaxTime(chores[c]) /\ chores[c].cancel_requested_at = now
          /\ MarkedMaxTime(chores[d]) /\ chores[d].cancel_requested_at = now

-----------------------------------------------------------------------------
(* C19 *)

\* the terminal chores of store chs whose end is at least CLEANUP_TTL old at t
Expired(chs, t) ==
    {c \in DOMAIN chs :
        /\ chs[c].status \in Terminal
        /\ chs[c].end # 0
        /\ t - chs[c].end >= CAPTAIN_CLEANUP_TTL}

\* C19: an iteration of the loop removes from the chores store every terminal
\* chore whose end was at least CLEANUP_TTL old when the iteration began, and no
\* step of the loop removes a terminal chore whose end is younger than that
C19_TtlPurge ==
    [][/\ (LoopStart /\ loop'.pc = "idle") => Expired(chores, now) \cap DOMAIN chores' = {}
       /\ (LoopPost /\ loop'.pc = "idle")
             => Expired(loop.loaded, loop.now) \cap DOMAIN chores' = {}
       /\ (LoopStart \/ LoopPost)
             => \A c \in DOMAIN chores :
                   (/\ chores[c].status \in Terminal
                    /\ chores[c].end # 0
                    /\ now - chores[c].end < CAPTAIN_CLEANUP_TTL)
                   => c \in DOMAIN chores']_vars

-----------------------------------------------------------------------------
(* C20 *)

\* C20: every accepted submission is issued a chore_id greater than every
\* chore_id in the store, so it shares its id with no other submission and
\* overwrites no chore record
C20_ChoreIdUnique ==
    [][\A o \in Owners, rq \in Requests, sv \in ServiceRequests, ms \in 0..MaxSub :
          (user_chore(o, rq[1], rq[2], sv, ms) /\ last'.branch = "ok")
          => /\ NewChoreId(ms) \notin DOMAIN chores
             /\ \A c \in DOMAIN chores : NewChoreId(ms) > c]_vars

-----------------------------------------------------------------------------
(* C21 *)

\* the subprocesses of chore c that have not exited
LiveProcs(c) ==
    {pid \in DOMAIN ship.procs : ship.procs[pid].chore = c /\ ship.procs[pid].alive}

\* the watcher threads of chore c that have not returned
LiveWatchers(c) ==
    {i \in Threads("watch") : ship.threads[i].chore = c /\ ship.threads[i].pc # "return"}

\* C21: a launch request for a chore_id that is in the Sailor's running table
\* is answered OK without starting a process, and whatever the interleaving of
\* the launch requests at most one subprocess and one watcher exist per chore_id
C21_LaunchIdempotent ==
    [][/\ \A i \in DOMAIN ship.threads :
             (LaunchCheck(i) /\ ship.threads[i].chore \in DOMAIN ship.proc_by_chore)
             => ship'.threads[i].pc = "ok" /\ ship'.procs = ship.procs
       /\ \A c \in ShipChores :
             (Cardinality(LiveProcs(c)) <= 1 /\ Cardinality(LiveWatchers(c)) <= 1)']_vars

-----------------------------------------------------------------------------
(* C22 *)

TerminalReportsBy(i) ==
    {k \in DOMAIN ship.reports :
        ship.reports[k].by = i /\ ship.reports[k].status \in {"Done", "Failed", "Canceled"}}

RunningReportsBy(i) ==
    {k \in DOMAIN ship.reports : ship.reports[k].by = i /\ ship.reports[k].status = "Running"}

\* C22: the watcher of a launched subprocess sends its terminal report after
\* that subprocess has exited, once, and after one Running report; the cancel
\* handler sends no report; and the running-table entry of the chore is removed
\* only by a watcher that has sent its terminal report
C22_SingleTerminalReport ==
    [][/\ \A i \in DOMAIN ship.threads :
             /\ WatchExit(i)
                   => /\ ~ship.procs[ship.threads[i].popen].alive
                      /\ Cardinality(RunningReportsBy(i)) = 1
                      /\ TerminalReportsBy(i) = {}
             /\ (ship.threads[i].kind = "watch" /\ ship'.threads[i].pc = "return")
                   => Cardinality(TerminalReportsBy(i)) = 1
             /\ ship.threads[i].kind = "cancel"
                   => \A k \in DOMAIN ship'.reports : ship'.reports[k].by # i
       /\ \A c \in DOMAIN ship.running \ DOMAIN ship'.running :
             \E i \in Threads("watch") :
                /\ WatchFinally(i)
                /\ ship.threads[i].chore = c
                /\ TerminalReportsBy(i) # {}]_vars

-----------------------------------------------------------------------------
(* C23 *)

\* C23: the watcher's terminal report is Canceled when the chore's
\* cancel_requested flag is set at the time of the exit, otherwise Done for
\* exit code 0 and Failed for any other; the cancel handler signals only from
\* the position it reaches by setting the flag; and a subprocess killed by the
\* cancel handler is never reported as Failed
C23_WatcherClassification ==
    [][\A i \in DOMAIN ship.threads :
          /\ WatchExit(i)
                => LET c == ship.threads[i].chore
                       p == ship.procs[ship.threads[i].p]
                       flag == c \in DOMAIN ship.running /\ ship.running[c].cancel_requested
                       sent == ship'.reports[Len(ship'.reports)]
                   IN  /\ sent.status = IF flag THEN "Canceled"
                                        ELSE IF p.ret = 0 THEN "Done" ELSE "Failed"
                       /\ p.killed => sent.status # "Failed"
          /\ CancelSignal(i) => ship.threads[i].pc = "signal"]_vars

-----------------------------------------------------------------------------
(* C24 *)

\* the write file2 over file, computed from the snapshot snap, undoes an update
\* committed since the snapshot: a record that is new or differs from the
\* snapshot is dropped or set back to the snapshot's value
Overwrites(snap, file, file2) ==
    \E k \in DOMAIN file :
       /\ k \notin DOMAIN snap \/ file[k] # snap[k]
       /\ \/ k \notin DOMAIN file2
          \/ k \in DOMAIN snap /\ file2[k] = snap[k] /\ file2[k] # file[k]

\* C24: a pass that resumes after its launch POST and a loop iteration that
\* resumes after its cancel POST write nothing that undoes an update committed
\* to crew.json or chores.json since they read or last wrote the file
C24_StoreSerialization ==
    [][/\ (PassDispatchOk \/ PassDispatchFail)
          => /\ ~Overwrites(pass.chores, chores, chores')
             /\ ~Overwrites(pass.crew, crew, crew')
       /\ LoopPost
          => \A k \in DOMAIN chores \ (DOMAIN loop.loaded \cup DOMAIN loop.chores) :
                k \in DOMAIN chores']_vars

-----------------------------------------------------------------------------
(* C25 *)

RECURSIVE FromFirstExcess(_, _, _, _, _)
\* the first chore of items whose duration would take the running total over
\* limit, and every chore after it
FromFirstExcess(items, total, limit, lch, t) ==
    IF items = <<>> THEN {}
    ELSE LET dur == Dur(lch[Head(items)], t)
         IN IF total + dur <= limit
            THEN FromFirstExcess(Tail(items), total + dur, limit, lch, t)
            ELSE {items[k] : k \in DOMAIN items}

\* the owner's non-pending active chores, oldest T0 first
TimedItems(o, lch, t) ==
    SortByT0(SelectSeq(OwnerItems(o, lch), LAMBDA c : lch[c].status # "pending"), lch, t)

\* C25: an iteration of the loop marks, for each owner with a positive
\* time_limit, exactly the first non-pending active chore (oldest T0 first) that
\* takes the running total of durations over the limit and every chore after
\* it, with cancel_source user_time_limit and reason "exceeded user time limit";
\* pending chores are not marked
C25_BudgetMarking ==
    [][LoopStart =>
         \A c \in DOMAIN chores :
            LET limit == _parse_max_time(UserTimeLimit(users, chores[c].owner))
                due == /\ limit > 0
                       /\ c \in FromFirstExcess(TimedItems(chores[c].owner, chores, now),
                                                0, limit, chores, now)
            IN /\ due <=> c \in BudgetCancel(chores, users, now)
               /\ due => /\ c \in DOMAIN chores' /\ chores'[c].status = "cancel_requested"
                         /\ BudgetMark(chores, users, now)[c].cancel_source = "user_time_limit"
                         /\ BudgetMark(chores, users, now)[c].reason = "exceeded user time limit"
               /\ chores[c].status = "pending" => c \notin BudgetCancel(chores, users, now)]_vars

-----------------------------------------------------------------------------
(* C26 *)

\* the chores an iteration of the loop that read the clock at t has marked
\* cancel_requested and that have a sailor
LoopMarked(lch, t) ==
    {c \in DOMAIN lch :
        /\ lch[c].status = "cancel_requested"
        /\ lch[c].cancel_requested_at = t
        /\ lch[c].cancel_source \in {"user_time_limit", "sailor_max_time"}
        /\ lch[c].sailor # Null}

\* C26: when an iteration of the loop ends, a cancel POST has been issued for
\* every chore with a sailor that it marked cancel_requested, by the per-user
\* time budget or by the sailor's max_time
C26_CancelPostAfterMark ==
    [][((LoopStart \/ LoopPost) /\ loop'.pc = "idle")
          => \A c \in LoopMarked(chores', IF loop.pc = "idle" THEN now ELSE loop.now) :
                c \in DOMAIN cancel_posted']_vars

-----------------------------------------------------------------------------
(* C27 *)

\* C27: a chore whose status is cancel_requested keeps that status or takes a
\* terminal one (or leaves the store); no operation that starts from the current
\* stores (no pass or loop iteration is blocked in a POST, no chore_id is issued
\* twice) returns it to running, assigned or pending
C27_CancelConvergence ==
    [][(pass.pc = "idle" /\ loop.pc = "idle" /\ reissued' = {})
          => \A c \in DOMAIN chores \cap DOMAIN chores' :
                chores[c].status = "cancel_requested"
                => chores'[c].status \in {"cancel_requested"} \cup TERMINAL_STATUSES]_vars

-----------------------------------------------------------------------------
(* C28 *)

\* sailor b is a candidate for the chore in crew snapshot lc, no candidate has a
\* greater score, and no candidate before b in store order has the same score
FirstOfBest(b, lc, chore) ==
    /\ b \in DOMAIN lc
    /\ Candidate(lc[b], chore)
    /\ \A m \in DOMAIN lc :
          Candidate(lc[m], chore)
          => \/ Score(lc[b], chore) > Score(lc[m], chore)
             \/ /\ Score(lc[b], chore) = Score(lc[m], chore)
                /\ SailorIndex(b) <= SailorIndex(m)

\* C28: the sailor a pass reserves for a pending chore is, in the crew snapshot
\* of the pass, a candidate of maximal score (free_cpu - need_cpu) +
\* (free_gpu - need_gpu) and the first such in store order; the snapshot a pass
\* continues on after a launch holds the used counters increased by that
\* reservation; and a pass that ends leaves pending only chores with no candidate
C28_AssignmentSelection ==
    [][LET resumed == pass.pc = "dispatch"
           lc == IF resumed THEN pass.crew ELSE crew
       IN ((resumed => PassDispatchOk) /\ reissued' = {})
          => /\ (pass'.pc = "dispatch" /\ pass' # pass)
                => LET d == pass'.cur
                       b == pass'.sailor
                   IN /\ FirstOfBest(b, lc, chores'[d])
                      /\ crew'[b].used_cpus = lc[b].used_cpus + NeedCpus(chores'[d])
                      /\ crew'[b].used_gpus = lc[b].used_gpus + NeedGpus(chores'[d])
             /\ PassDispatchOk
                => /\ pass.crew[pass.sailor].used_cpus
                         = pass.before[1] + NeedCpus(pass.chores[pass.cur])
                   /\ pass.crew[pass.sailor].used_gpus
                         = pass.before[2] + NeedGpus(pass.chores[pass.cur])
             /\ (pass'.pc = "idle" /\ chores' # chores)
                => \A d \in DOMAIN chores' :
                      (chores'[d].status = "pending" /\ chores'[d].sailor = Null)
                      => \A n \in DOMAIN crew' : ~Candidate(crew'[n], chores'[d])]_vars

\* a pass goes on after a launch and reserves, for a second chore, the first of
\* two sailors that have the same score for it
C28_Witness ==
    /\ pass.pc = "dispatch"
    /\ \E d \in DOMAIN chores \ {pass.cur} :
          /\ chores[d].status = "assigned"
          /\ chores[d].assigned_at = chores[pass.cur].assigned_at
          /\ d \in launched
    /\ pass.sailor = CrewOrder[1]
    /\ \E m \in DOMAIN pass.crew \ {pass.sailor} :
          LET a == pass.crew[pass.sailor]
              s == pass.crew[m]
          IN /\ (s.cpus - s.used_cpus) + (s.gpus - s.used_gpus)
                   = (a.cpus - pass.before[1]) + (a.gpus - pass.before[2])
             /\ s.cpus - s.used_cpus >= NeedCpus(chores[pass.cur])
             /\ s.gpus - s.used_gpus >= NeedGpus(chores[pass.cur])
             /\ s.status \in {"idle", "busy"}
             /\ now - s.last_seen <= ALIVE_THRESHOLD

-----------------------------------------------------------------------------
(* C29 *)

\* C29: a Running report for a known chore sets its status to running, sets
\* its run_start to now if it has none and leaves it unchanged otherwise,
\* changes nothing else in the chore's record, and leaves the crew store and
\* every other chore unchanged
C29_RunningReportFrame ==
    [][\A n \in Sailors, c \in DOMAIN chores :
          sailor_report(n, c, "Running")
          => /\ chores' = [chores EXCEPT
                              ![c].status = "running",
                              ![c].run_start = IF chores[c].run_start # 0
                                               THEN chores[c].run_start ELSE now]
             /\ crew' = crew]_vars

\* a Running report has come in for a chore whose run_start is older than
\* this run of the Captain, beside another chore
C29_Witness ==
    /\ last.op = "sailor_report"
    /\ last.branch = "running"
    /\ last.arg \in DOMAIN chores
    /\ chores[last.arg].status = "running"
    /\ chores[last.arg].run_start # 0
    /\ chores[last.arg].run_start < StartTime
    /\ DOMAIN chores # {last.arg}

-----------------------------------------------------------------------------
(* C30 *)

\* C30: user_cancel on a chore with no sailor sets it canceled with end = now
\* and the supplied reason or "canceled by user", issues no cancel POST and
\* leaves the crew store unchanged; and such a chore is not assigned afterwards,
\* nor is its launch dispatched, by a pass that loaded the chores store before
\* the cancel
C30_CancelUnassigned ==
    [][/\ \A c \in DOMAIN chores, r \in CancelReasons :
             (user_cancel(c, r) /\ chores[c].sailor = Null)
             => /\ chores'[c].status = "canceled"
                /\ chores'[c].end = now
                /\ chores'[c].reason = IF r = Null THEN "canceled by user" ELSE r
                /\ cancel_posted' = cancel_posted
                /\ crew' = crew
       /\ \A c \in DOMAIN chores \cap DOMAIN chores' :
             (chores[c].status = "canceled" /\ chores[c].sailor = Null /\ reissued' = {})
             => /\ chores'[c].status # "assigned"
                /\ (pass'.pc = "dispatch" /\ pass' # pass) => pass'.cur # c]_vars

-----------------------------------------------------------------------------
(* C31 *)

\* C31: a Done, Failed or Canceled report for a known chore with an empty
\* reason fills the reason, from the cancel_source mapping when a
\* cancel_source is set and with the lower-cased status name otherwise; a
\* reason that is set is left unchanged
C31_TerminalReason ==
    [][\A n \in Sailors, c \in DOMAIN chores, st \in {"Done", "Failed", "Canceled"} :
          (sailor_report(n, c, st) /\ c \in DOMAIN chores')
          => chores'[c].reason =
                IF chores[c].reason # Null THEN chores[c].reason
                ELSE IF chores[c].cancel_source # Null
                     THEN ReasonOf(chores[c].cancel_source, Lower(st))
                     ELSE Lower(st)]_vars

-----------------------------------------------------------------------------
(* C32 *)

\* the chores of store lch an iteration that reads the clock at t has to
\* finalize (cancel_requested for CAPTAIN_CANCEL_REQUESTED_TTL) or to purge
\* (terminal for CAPTAIN_CLEANUP_TTL)
DueAt(lch, t) ==
    {c \in DOMAIN lch :
        \/ /\ lch[c].status = "cancel_requested"
           /\ lch[c].cancel_requested_at # 0
           /\ t - lch[c].cancel_requested_at >= CAPTAIN_CANCEL_REQUESTED_TTL
        \/ /\ lch[c].status \in TERMINAL_STATUSES
           /\ lch[c].end # 0
           /\ t - lch[c].end >= CAPTAIN_CLEANUP_TTL}

\* C32: an iteration of the loop that has run to its end, whatever failure one
\* chore caused in it, has finalized every other chore that was
\* cancel_requested for CAPTAIN_CANCEL_REQUESTED_TTL and purged every other
\* chore that was terminal for CAPTAIN_CLEANUP_TTL when it began
C32_LoopFaultTolerance ==
    [][((LoopStart \/ LoopFails \/ LoopPost) /\ loop'.pc = "idle")
          => LET t == IF loop.pc = "idle" THEN now ELSE loop.now
                 lch == IF loop.pc = "idle" THEN chores ELSE loop.loaded
             IN \A c \in DueAt(lch, t) :
                   (lch[c].owner # NonNumericOwner /\ c \in DOMAIN chores')
                   => chores'[c] # lch[c]]_vars

-----------------------------------------------------------------------------
(* C33 *)

\* C33: a user_cancel for a chore that is terminal or cancel_requested already
\* leaves the chore's status, end, cancel_requested_at and cancel_source and
\* the crew store unchanged
C33_RepeatedCancel ==
    [][\A c \in DOMAIN chores, r \in CancelReasons :
          (/\ user_cancel(c, r)
           /\ chores[c].status \in TERMINAL_STATUSES \cup {"cancel_requested"})
          => /\ chores'[c].status = chores[c].status
             /\ chores'[c].end = chores[c].end
             /\ chores'[c].cancel_requested_at = chores[c].cancel_requested_at
             /\ chores'[c].cancel_source = chores[c].cancel_source
             /\ crew' = crew]_vars

-----------------------------------------------------------------------------
(* C34 *)

\* C34: no step, a repeated prereg and a store write made from an older crew
\* snapshot included, decreases the last_seen of a sailor in the crew store
C34_LastSeenMonotone ==
    [][\A n \in DOMAIN crew \cap DOMAIN crew' :
          crew'[n].last_seen >= crew[n].last_seen]_vars

-----------------------------------------------------------------------------
(* C35 *)

\* C35: an owner whose chores_limit is n > 0 never holds more than n active
\* chores (pending, assigned, running, or cancel_requested for less than
\* CAPTAIN_CANCEL_REQUESTED_TTL) in the chores store, however the owner's
\* concurrent submissions interleave
C35_ChoresLimitHeld ==
    \A o \in DOMAIN users :
       users[o].chores_limit > 0
       => Cardinality(CountedActive(o)) <= users[o].chores_limit

-----------------------------------------------------------------------------
(* C36 *)

\* C36: a stored chore stays in the chores store, with its ressources and its
\* owner, until the loop purges it as a terminal chore older than
\* CAPTAIN_CLEANUP_TTL (chore ids issued twice set aside)
C36_NoChoreLost ==
    [][reissued' = {}
          => \A c \in DOMAIN chores :
                IF c \in DOMAIN chores'
                THEN /\ chores'[c].cpus = chores[c].cpus
                     /\ chores'[c].gpus = chores[c].gpus
                     /\ chores'[c].owner = chores[c].owner
                ELSE /\ LoopStart \/ LoopPost
                     /\ chores[c].status \in TERMINAL_STATUSES
                     /\ chores[c].end # 0
                     /\ now - chores[c].end >= CAPTAIN_CLEANUP_TTL]_vars

-----------------------------------------------------------------------------
(* C37 *)

-----------------------------------------------------------------------------
(* C38 *)

\* a non-empty run of digits
Numeric(f) == f # <<>> /\ \A i \in 1..Len(f) : f[i] \in Digits

\* the seconds of a duration string: days*86400 + hh*3600 + mm*60 + ss for
\* [DD-]hh:mm:ss with numeric fields, the fields padded left; 0 for no string,
\* a field that is no number, an empty day part, more than three fields
Seconds(s) ==
    LET dash == FirstIndex(s, "-")
        rest == IF dash = 0 THEN s ELSE SubSeq(s, dash + 1, Len(s))
        f == Split(rest, ":")
        n == Len(f)
        at(k) == IF k >= 1 THEN NatVal(f[k]) ELSE 0
    IN IF s = <<>> THEN 0
       ELSE IF dash # 0 /\ ~Numeric(SubSeq(s, 1, dash - 1)) THEN 0
       ELSE IF n > 3 \/ \E k \in 1..n : ~Numeric(f[k]) THEN 0
       ELSE (IF dash = 0 THEN 0 ELSE NatVal(SubSeq(s, 1, dash - 1))) * 86400
            + at(n - 2) * 3600 + at(n - 1) * 60 + at(n)

\* C38: the loop reads every time_limit and max_time as days*86400 + hh*3600 +
\* mm*60 + ss when the string is [DD-]hh:mm:ss with numeric fields, and as 0
\* when it is missing or invalid (a non-numeric field, an empty day part, more
\* than three colon-separated fields); a limit of 0 marks no chore
C38_ParseMaxTime ==
    [][LoopStart =>
         /\ \A o \in DOMAIN users :
               _parse_max_time(users[o].time_limit) = Seconds(users[o].time_limit)
         /\ \A n \in DOMAIN crew :
               _parse_max_time(crew[n].max_time) = Seconds(crew[n].max_time)
         /\ \A c \in DOMAIN chores \cap DOMAIN chores' :
               /\ (/\ Seconds(UserTimeLimit(users, chores[c].owner)) = 0
                   /\ chores[c].cancel_source # "user_time_limit")
                  => chores'[c].cancel_source # "user_time_limit"
               /\ (/\ chores[c].sailor \in DOMAIN crew
                   /\ Seconds(crew[chores[c].sailor].max_time) = 0
                   /\ chores[c].cancel_source # "sailor_max_time")
                  => chores'[c].cancel_source # "sailor_max_time"]_vars

-----------------------------------------------------------------------------
(* C39 *)

\* the rows of the chores that are ASSIGNED or RUNNING on sailor n
Held(n) ==
    SelectSeq(get_chores(chest),
              LAMBDA r : r.Sailor = n /\ get_chore_status(r) \in {"ASSIGNED", "RUNNING"})

\* C39: in the relational variant, whatever the interleaving of the
\* lieutenant's loop with a sailor's loop, the cpus (resp. gpus) of the chores
\* ASSIGNED or RUNNING on a sailor never add up to more than its CPUS (resp.
\* GPUS)
C39_NoOverCommit ==
    \A n \in Sailors :
        /\ Used(Held(n), FALSE) <= chest.Sailors[n].CPUS
        /\ Used(Held(n), TRUE) <= chest.Sailors[n].GPUS

-----------------------------------------------------------------------------
(* C40 *)

\* the sailor and the watcher have both finished with chore c
Settled(ch, c) ==
    /\ Pid(c) \notin ch.watchers
    /\ \A n \in Sailors :
          ch.sailor[n].pc = "terminated" => Head(ch.sailor[n].chores).ID # c

\* a chore that was RUNNING when its cancellation was requested and whose
\* process the sailor terminated is CANCELED once the sailor and the watcher
\* are done with it (or waits for the sailor again, after a further request)
CancelOutcome(ch) ==
    \A c \in ch.asked \cap ch.killed :
        Settled(ch, c) => get_chore_status(ch.Chores[c]) \in
                             {"CANCELED", "CANCEL_REQUESTED"}

\* C40: in the relational variant, a chore that was RUNNING when cancel_chore
\* was requested and whose process the sailor terminates ends CANCELED, never
\* FAILED or COMPLETED, however the sailor's cancel_chore and the watcher
\* interleave; and a cancel request changes the status of no chore that is
\* COMPLETED, FAILED or CANCELED
C40_CancelOutcome ==
    [][/\ CancelOutcome(chest')
       /\ \A c \in DOMAIN chest.Chores :
             (/\ captain_cancel_chore(c)
              /\ get_chore_status(chest.Chores[c]) \in
                    {"COMPLETED", "FAILED", "CANCELED"})
             => get_chore_status(chest'.Chores[c]) = get_chore_status(chest.Chores[c])]_vars

====
